---- MODULE Spec2Model ----
(***************************************************************************)
(* State-machine model of the arbitrage trader:                            *)
(*   - RiskManager            (position ledger, daily reset, blacklists)   *)
(*   - TradingExecutionEngine (single-flight guard, leg sequencing)        *)
(*   - ArbitrageTrader        (event wiring, handleOpportunityFound,       *)
(*                             start / stop / emergencyStop)               *)
(*   - ArbitrageDetector      (scan interval timer, scan cycles)           *)
(* Every await of the TypeScript source is a scheduling point: the code    *)
(* between two awaits is one atomic action.                                *)
(***************************************************************************)
EXTENDS Integers, Sequences, FiniteSets, TLC

(***************************************************************************)
(* Bounds of the model                                                     *)
(***************************************************************************)
\* number of opportunities (one handleOpportunityFound call each)
NHandlers == 2
\* number of start() calls that can be in progress at once
NStarts == 1
\* number of timer-triggered scan cycles that can be in progress at once
MaxScans == 1
\* number of interval timers that can be set at once
MaxTimers == 2
\* the clock runs over 0..MaxNow
MaxNow == 2
\* length of a UTC day in clock units (86400000 ms in the program)
DayLen == 1
\* cap on |dailyVolume| and on dailyTrades in the ledger-only specification
MaxVolume == 3
MaxTrades == 3

(***************************************************************************)
(* Program constants                                                       *)
(***************************************************************************)
\* executionPath built by calculateArbitrage has two legs
NumLegs == 2
\* shouldExecuteTrade: riskScore > 70 rejects
CriticalScore == 70
\* shouldExecuteTrade: dailyTrades >= 50 rejects
DailyTradeLimit == 50
\* shouldExecuteTrade: activeTrades >= 3 rejects
MaxActiveTrades == 3
\* CONFIG.trading.minProfitThreshold (0.005), times 1000
MinProfitThresholdE3 == 5

Handlers == 1..NHandlers
Starts == 1..NStarts

\* probe input amount of an opportunity (parseUnits('1', decimals), scaled)
ProbeAmount == 100
\* risk scores an assessment can produce: one that passes (position scaled to
\* 70%), one critical
Scores == {40, 80}
\* profit of an opportunity in basis points
ProfitsBp == {0, 120}
\* balances of the origin asset that the wallet can hold after the last leg
FinalBalances == {0, 101}
\* amounts a caller of recordTradeEnd passes in the ledger-only specification
EndAmounts == {0, 1}
\* token addresses as callers spell them, and protocol names
TokenAddrs == {"0xab", "0xAB", "0xcd"}
ProtocolNames == {"uniswap_v2"}

VARIABLES
    now,             \* Date.now()
    tradingEnabled,  \* CONFIG.trading.tradingEnabled
    ledger,          \* RiskManager fields
    isExecuting,     \* TradingExecutionEngine.isExecuting
    pc,              \* pc[h]: position of handleOpportunityFound / executeOpportunity for opportunity h
    ex,              \* ex[h]: locals of the execution of opportunity h
    lastResult,      \* outcome of the executeOpportunity call that returned last
    isRunning,       \* ArbitrageTrader.isRunning
    startPc,         \* startPc[s]: position of a start() call
    scanInterval,    \* ArbitrageDetector.scanInterval is non-null
    activeTimers,    \* number of interval timers that are set and not cleared
    scans,           \* number of timer-triggered scan cycles in progress
    estopped,        \* history: emergencyStop() returned and trading was not re-enabled since
    waitingAtStop,   \* history: the handlers that were awaiting the AI prediction or the
                     \*          gas estimate when that emergencyStop() returned
    haltedScan,      \* history: emergencyStop() returned and start() was not called since
    resetsDone,      \* history: number of daily resets performed after construction
    lastOp,          \* history: last RiskManager call of the ledger-only specification
    request,         \* the last RiskManager or ProtocolManager call: its arguments and,
                     \* for a registry lookup, what it returned
    assessment,      \* the RiskAssessment the last assessRisk call returned
    blHistory,       \* history: the entries the blacklist calls so far leave listed
    startsToday,     \* history: recordTradeStart calls in the current UTC day
    run,             \* one opportunity followed through handleOpportunityFound and
                     \* executeOpportunity in detail
    arb,             \* one calculateArbitrage call and the revalidation of its result
    cycle            \* one scanForOpportunities cycle

vars == <<now, tradingEnabled, ledger, isExecuting, pc, ex, lastResult, isRunning,
          startPc, scanInterval, activeTimers, scans, estopped, waitingAtStop,
          haltedScan, resetsDone, lastOp, request, assessment, blHistory,
          startsToday, run, arb, cycle>>

\* the variables of the RiskManager-only and single-opportunity specifications
riskVars == <<request, assessment, blHistory, startsToday>>
scanVars == <<arb, cycle>>
probeVars == <<riskVars, run, scanVars>>

traderVars == <<isRunning, startPc, scanInterval, activeTimers, scans, haltedScan>>
engineVars == <<isExecuting, pc, ex, lastResult>>

(***************************************************************************)
(* RiskManager                                                             *)
(***************************************************************************)
\* String.prototype.toLowerCase on the modelled addresses
ToLowerCase(a) == IF a = "0xAB" THEN "0xab" ELSE a

\* tomorrow.setUTCHours(0,0,0,0); tomorrow.setUTCDate(getUTCDate() + 1)
NextMidnight(t) == ((t \div DayLen) + 1) * DayLen

resetDailyLimits(l, t) ==
    [l EXCEPT !.dailyResetTime = NextMidnight(t), !.dailyVolume = 0, !.dailyTrades = 0]

\* the ledger after the constructor ran at time t
NewLedger(t) ==
    resetDailyLimits([dailyVolume |-> 0, dailyTrades |-> 0, activeTrades |-> 0,
                      lastTradeTime |-> 0, dailyResetTime |-> 0,
                      blacklistedTokens |-> {}, blacklistedProtocols |-> {}], t)

\* mutant: the reset runs on every assessment
assessRiskLedger_AlwaysReset(l, t) == resetDailyLimits(l, t)

\* effect of assessRisk on the ledger: "Check if daily reset is needed"
assessRiskLedger(l, t) ==
    IF t > l.dailyResetTime THEN resetDailyLimits(l, t) ELSE l

\* opportunity.profitPercentage < minProfitThreshold * (1 + riskScore / 100)
ProfitBelowBar(profitBp, riskScore) ==
    profitBp * 1000 < MinProfitThresholdE3 * (100 + riskScore)

shouldExecuteTrade(l, riskScore, profitBp) ==
    IF riskScore > CriticalScore THEN FALSE
    ELSE IF l.dailyTrades >= DailyTradeLimit THEN FALSE
    ELSE IF l.activeTrades >= MaxActiveTrades THEN FALSE
    ELSE IF ProfitBelowBar(profitBp, riskScore) THEN FALSE
    ELSE TRUE

\* the 70 % band applied from score 30 on instead of above 30
calculateAdjustedPositionSize_From30(inputAmount, riskScore) ==
    LET mult == IF riskScore > 50 THEN 50
                ELSE IF riskScore >= 30 THEN 70
                ELSE IF riskScore > 15 THEN 85
                ELSE 100
    IN (inputAmount * mult) \div 100

calculateAdjustedPositionSize(inputAmount, riskScore) ==
    LET mult == IF riskScore > 50 THEN 50
                ELSE IF riskScore > 30 THEN 70
                ELSE IF riskScore > 15 THEN 85
                ELSE 100
    IN (inputAmount * mult) \div 100

recordTradeStart(l, t) ==
    [l EXCEPT !.activeTrades = @ + 1, !.dailyTrades = @ + 1, !.lastTradeTime = t]

Max(a, b) == IF a >= b THEN a ELSE b

\* mutant: the amount is added whatever the outcome
recordTradeEnd_AlwaysAdds(l, inputAmount, success) ==
    [l EXCEPT !.activeTrades = Max(0, @ - 1), !.dailyVolume = @ + inputAmount]

recordTradeEnd(l, inputAmount, success) ==
    [l EXCEPT !.activeTrades = Max(0, @ - 1),
              !.dailyVolume = IF success THEN @ + inputAmount ELSE @]

addTokenToBlacklist_AsGiven(l, a) ==
    [l EXCEPT !.blacklistedTokens = @ \cup {a}]

addTokenToBlacklist(l, a) ==
    [l EXCEPT !.blacklistedTokens = @ \cup {ToLowerCase(a)}]

removeTokenFromBlacklist(l, a) ==
    [l EXCEPT !.blacklistedTokens = @ \ {ToLowerCase(a)}]

addProtocolToBlacklist(l, p) ==
    [l EXCEPT !.blacklistedProtocols = @ \cup {p}]

removeProtocolFromBlacklist(l, p) ==
    [l EXCEPT !.blacklistedProtocols = @ \ {p}]

(***************************************************************************)
(* RiskManager.assessRisk: the seven scoring components                    *)
(* An opportunity is a record; profitBp is profitPercentage * 100,         *)
(* inputAmount is in hundredths of a token (inputAmount / 1e16), liquidity *)
(* is parseFloat(pool.liquidity) || 0, timestamp is in clock units.        *)
(* An AI prediction is a record of percents; kind "none": argument omitted.*)
(***************************************************************************)
\* the cooldown (30000 ms) and the two age thresholds (30000 ms, 60000 ms) of
\* assessMarketConditionsRisk, in clock units of the model
Cooldown == 1
AgedAfter == 1
StaleAfter == 2
\* CONFIG.trading.maxPositionSize * 0.5, and * 10, in hundredths of a token
HalfMaxPosition == 50000
DailyVolumeLimit == 1000000

stablecoins == {"USDC", "USDT", "DAI", "BUSD"}
majorTokens == {"WETH", "WBTC", "WMATIC", "BNB"}
trustedProtocols == {"uniswap_v2", "uniswap_v3", "sushiswap", "pancakeswap"}

Min(a, b) == IF a <= b THEN a ELSE b

\* a component's result
Risk(score, reasons) == [score |-> score, reasons |-> reasons]

\* mutant: the blacklist is looked up with the address as spelled
assessTokenRisk_CaseSensitive(l, opp) ==
    LET listed == opp.tokenA \in l.blacklistedTokens \/ opp.tokenB \in l.blacklistedTokens
        pair == IF opp.symA \in stablecoins /\ opp.symB \in stablecoins
                THEN Risk(-5, <<"Stablecoin pair - reduced risk">>)
                ELSE IF opp.symA \in majorTokens \/ opp.symB \in majorTokens
                THEN Risk(-2, <<"Major token pair - slightly reduced risk">>)
                ELSE Risk(10, <<"Unknown token pair - increased risk">>)
    IN Risk((IF listed THEN 100 ELSE 0) + pair.score,
            (IF listed THEN <<"Token is blacklisted">> ELSE <<>>) \o pair.reasons)

assessTokenRisk(l, opp) ==
    LET listed == \/ ToLowerCase(opp.tokenA) \in l.blacklistedTokens
                  \/ ToLowerCase(opp.tokenB) \in l.blacklistedTokens
        pair == IF opp.symA \in stablecoins /\ opp.symB \in stablecoins
                THEN Risk(-5, <<"Stablecoin pair - reduced risk">>)
                ELSE IF opp.symA \in majorTokens \/ opp.symB \in majorTokens
                THEN Risk(-2, <<"Major token pair - slightly reduced risk">>)
                ELSE Risk(10, <<"Unknown token pair - increased risk">>)
    IN Risk((IF listed THEN 100 ELSE 0) + pair.score,
            (IF listed THEN <<"Token is blacklisted">> ELSE <<>>) \o pair.reasons)

assessProtocolRisk(l, opp) ==
    LET listed == \/ opp.buyProtocol \in l.blacklistedProtocols
                  \/ opp.sellProtocol \in l.blacklistedProtocols
        untrusted == \/ opp.buyProtocol \notin trustedProtocols
                     \/ opp.sellProtocol \notin trustedProtocols
        cross == opp.buyProtocol # opp.sellProtocol
    IN Risk((IF listed THEN 50 ELSE 0) + (IF untrusted THEN 15 ELSE 0)
                + (IF cross THEN 5 ELSE 0),
            (IF listed THEN <<"Protocol is blacklisted">> ELSE <<>>)
                \o (IF untrusted THEN <<"Using less established protocol">> ELSE <<>>)
                \o (IF cross THEN <<"Cross-protocol arbitrage - additional execution risk">>
                             ELSE <<>>))

\* positionSize / minLiquidity > n / 100, as JavaScript numbers: x / 0 is
\* Infinity for x > 0 and NaN (every comparison false) for x = 0
\* a division by an empty pool treated as no utilization at all
UtilizationAbove_EmptyIsNone(position, minLiquidity, n) ==
    minLiquidity # 0 /\ position > n * minLiquidity

UtilizationAbove(position, minLiquidity, n) ==
    IF minLiquidity = 0 THEN position > 0 ELSE position > n * minLiquidity

assessLiquidityRisk(opp) ==
    LET minLiquidity == Min(opp.buyLiquidity, opp.sellLiquidity)
        depth == IF minLiquidity < 10000 THEN Risk(30, <<"Very low liquidity pools">>)
                 ELSE IF minLiquidity < 100000 THEN Risk(15, <<"Low liquidity pools">>)
                 ELSE Risk(0, <<>>)
        use == IF UtilizationAbove(opp.inputAmount, minLiquidity, 5)
               THEN Risk(25, <<"High liquidity utilization - increased slippage risk">>)
               ELSE IF UtilizationAbove(opp.inputAmount, minLiquidity, 2)
               THEN Risk(10, <<"Moderate liquidity utilization">>)
               ELSE Risk(0, <<>>)
    IN Risk(depth.score + use.score, depth.reasons \o use.reasons)

assessProfitRisk(opp) ==
    LET high == IF opp.profitBp > 500
                THEN Risk(20, <<"Unusually high profit margin - possible stale data">>)
                ELSE IF opp.profitBp > 200
                THEN Risk(5, <<"High profit margin - verify data freshness">>)
                ELSE Risk(0, <<>>)
        low == IF opp.profitBp < 10
               THEN Risk(25, <<"Very low profit margin - high execution risk">>)
               ELSE IF opp.profitBp < 20
               THEN Risk(10, <<"Low profit margin - moderate execution risk">>)
               ELSE Risk(0, <<>>)
    IN Risk(high.score + low.score, high.reasons \o low.reasons)

assessAIPredictionRisk(ai) ==
    LET conf == IF ai.confidence < 50 THEN Risk(30, <<"Low AI confidence in opportunity">>)
                ELSE IF ai.confidence < 70 THEN Risk(15, <<"Moderate AI confidence">>)
                ELSE Risk(-5, <<"High AI confidence - reduced risk">>)
        risk == IF ai.riskScore > 80 THEN Risk(25, <<"AI indicates high risk">>)
                ELSE IF ai.riskScore > 60 THEN Risk(10, <<"AI indicates moderate risk">>)
                ELSE Risk(0, <<>>)
        prob == IF ai.executionProbability < 50
                THEN Risk(20, <<"Low execution probability predicted">>)
                ELSE Risk(0, <<>>)
    IN Risk(conf.score + risk.score + prob.score,
            conf.reasons \o risk.reasons \o prob.reasons)

assessPositionSizeRisk(l, opp) ==
    LET large == opp.inputAmount > HalfMaxPosition
        over == l.dailyVolume + opp.inputAmount > DailyVolumeLimit
    IN Risk((IF large THEN 20 ELSE 0) + (IF over THEN 40 ELSE 0),
            (IF large THEN <<"Large position size relative to limits">> ELSE <<>>)
                \o (IF over THEN <<"Would exceed daily volume limits">> ELSE <<>>))

assessMarketConditionsRisk(l, opp, t) ==
    LET busy == l.activeTrades >= 3
        cooling == t - l.lastTradeTime < Cooldown /\ l.lastTradeTime > 0
        age == IF t - opp.timestamp > StaleAfter
               THEN Risk(15, <<"Stale opportunity - data may be outdated">>)
               ELSE IF t - opp.timestamp > AgedAfter
               THEN Risk(5, <<"Moderately aged opportunity">>)
               ELSE Risk(0, <<>>)
    IN Risk((IF busy THEN 15 ELSE 0) + (IF cooling THEN 10 ELSE 0) + age.score,
            (IF busy THEN <<"Multiple concurrent trades - increased risk">> ELSE <<>>)
                \o (IF cooling THEN <<"Recent trade execution - cooldown period">> ELSE <<>>)
                \o age.reasons)

shouldExecuteTradeCfg_NoCritical(l, riskScore, profitBp, thr) ==
    IF l.dailyTrades >= DailyTradeLimit THEN FALSE
    ELSE IF l.activeTrades >= MaxActiveTrades THEN FALSE
    ELSE IF profitBp * 1000 < thr * (100 + riskScore) THEN FALSE
    ELSE TRUE

\* shouldExecuteTrade under a configuration whose minProfitThreshold * 1000 is thr
shouldExecuteTradeCfg(l, riskScore, profitBp, thr) ==
    IF riskScore > CriticalScore THEN FALSE
    ELSE IF l.dailyTrades >= DailyTradeLimit THEN FALSE
    ELSE IF l.activeTrades >= MaxActiveTrades THEN FALSE
    ELSE IF profitBp * 1000 < thr * (100 + riskScore) THEN FALSE
    ELSE TRUE

riskLevel(riskScore) ==
    IF riskScore <= 20 THEN "LOW"
    ELSE IF riskScore <= 40 THEN "MEDIUM"
    ELSE IF riskScore <= 70 THEN "HIGH"
    ELSE "CRITICAL"

\* the RiskAssessment that assessRisk(opportunity, aiPrediction) returns at time t
\* from ledger l0, under minProfitThreshold * 1000 = thr
assessRisk(l0, t, opp, ai, thr) ==
    LET l == assessRiskLedger(l0, t)
        parts == <<assessTokenRisk(l, opp), assessProtocolRisk(l, opp),
                   assessLiquidityRisk(opp), assessProfitRisk(opp),
                   IF ai.kind = "none" THEN Risk(0, <<>>) ELSE assessAIPredictionRisk(ai),
                   assessPositionSizeRisk(l, opp), assessMarketConditionsRisk(l, opp, t)>>
        riskScore == parts[1].score + parts[2].score + parts[3].score + parts[4].score
                        + parts[5].score + parts[6].score + parts[7].score
    IN [kind |-> "assessment",
        riskScore |-> riskScore,
        riskLevel |-> riskLevel(riskScore),
        shouldExecute |-> shouldExecuteTradeCfg(l, riskScore, opp.profitBp, thr),
        reasons |-> parts[1].reasons \o parts[2].reasons \o parts[3].reasons
                        \o parts[4].reasons \o parts[5].reasons \o parts[6].reasons
                        \o parts[7].reasons,
        adjustedPositionSize |-> calculateAdjustedPositionSize(opp.inputAmount, riskScore)]

NoAssessment == [kind |-> "none", riskScore |-> 0, riskLevel |-> "LOW",
                 shouldExecute |-> FALSE, reasons |-> <<>>, adjustedPositionSize |-> 0]

\* aiPrediction omitted
NoPrediction == [kind |-> "none", confidence |-> 0, riskScore |-> 0,
                 executionProbability |-> 0]

\* a WETH/USDC opportunity on one trusted venue, deep pools, probe amount,
\* 1.2% profit, built at time 0; tokenA is spelled in mixed case
BaseOpp == [tokenA |-> "0xAB", tokenB |-> "0xcd", symA |-> "WETH", symB |-> "USDC",
            buyProtocol |-> "uniswap_v2", sellProtocol |-> "uniswap_v2",
            buyLiquidity |-> 1000000, sellLiquidity |-> 1000000,
            inputAmount |-> ProbeAmount, profitBp |-> 120, timestamp |-> 0]

\* an assessRisk call: opportunity, AI prediction, minProfitThreshold * 1000
Request(opp, ai, thr) == [kind |-> "assessRisk", opp |-> opp, ai |-> ai, thr |-> thr,
                          arg |-> ""]

NoRequest == [kind |-> "none", opp |-> BaseOpp, ai |-> NoPrediction,
              thr |-> MinProfitThresholdE3, arg |-> ""]

\* a blacklist call: method name and its address or protocol argument
BlacklistCall(method, arg) == [NoRequest EXCEPT !.kind = method, !.arg = arg]

\* the spellings that denote the same address as a
Spellings(a) == IF a \in {"0xab", "0xAB"} THEN {"0xab", "0xAB"} ELSE {a}

\* tokens, protocols: the entries, under every spelling, whose last add/remove
\* call was an add
NoBlHistory == [tokens |-> {}, protocols |-> {}]

\* number of daily resets the call assessRisk performs at time t
ResetsBy(l, t) == IF assessRiskLedger(l, t).dailyResetTime # l.dailyResetTime THEN 1 ELSE 0

(***************************************************************************)
(* Initial state: components constructed, trader not started               *)
(***************************************************************************)
\* ExecutionResult (kind "result") or the error a call rejected with (kind "thrown");
\* txs: transactionHashes, a leg's hash being the leg's number
\* history fields: sub = legs submitted, ok = legs confirmed with status 1
NoResult == [kind |-> "none", success |-> FALSE, txs |-> <<>>, sub |-> 0, ok |-> 0,
             profit |-> 0, err |-> ""]
\* leg: index of the loop of executeTrades; amount: opportunity.inputAmount;
\* history fields: sub, ok as above, open = 'execution-started' events minus
\* 'execution-success' / 'execution-failed' events of this call
NoExec == [leg |-> 0, txs |-> <<>>, sub |-> 0, ok |-> 0, amount |-> ProbeAmount,
           open |-> 0]

(***************************************************************************)
(* One opportunity followed through handleOpportunityFound and             *)
(* executeOpportunity: gas estimate, revalidation quotes, balance and      *)
(* allowance reads, approvals, the amounts of the submitted legs.          *)
(* Amounts are in hundredths of a token; the opportunity is BaseOpp with   *)
(* the detected profit drawn at the start.                                 *)
(***************************************************************************)
\* CONFIG.trading.maxGasPrice, in the gas-price unit of the model
MaxGasPrice == 3
\* what approve(router, MaxUint256) sets the allowance to
MaxUint == 1000000
\* quoteA_to_B at detection time
DetectedBuyQuote == 120

\* profitAmount of the detected opportunity, for the probe amount
DetectedProfits == {3, 7}
\* protocol.estimateGas(step) of one leg
GasEstimates == {1, 2}
\* feeData.gasPrice; 0 stands for null and for 0n, both falsy
GasPrices == {0, 1, 2}
\* getQuote results at revalidation time
BuyQuotes == {100, 150}
SellQuotes == {95, 102, 103, 110}
\* balanceOf / getBalance of the input asset
Balances == {50, 100}
\* allowance(wallet, router) of tokenA and of tokenB
AllowancesA == {0, MaxUint}
AllowancesB == {0, 99, MaxUint}
\* minProfitThreshold * 1000: the default 0.005, and 2.5 set through the dashboard
RunThresholdsE3 == {MinProfitThresholdE3, 2500}

\* BigInt division truncates towards zero
TruncDiv(a, b) == IF a >= 0 THEN a \div b ELSE -((-a) \div b)

\* ArbitrageDetector.calculateMinAmount with maxSlippage 0.02
calculateMinAmount(amount) == (amount * 980) \div 1000

\* TradingExecutionEngine.calculateSlippageProtectedAmount with maxSlippage 0.02
calculateSlippageProtectedAmount(amount) == (amount * 9800) \div 10000

\* the ratio taken in tenths of a percent
ProfitBpOf_PerMille(out, inp) == TruncDiv((out - inp) * 1000, inp)

\* profit percentage * 100 of receiving out for inp
ProfitBpOf(out, inp) == TruncDiv((out - inp) * 10000, inp)

Step(amountIn, amountOutMin) == [amountIn |-> amountIn, amountOutMin |-> amountOutMin]

\* executionPath of the opportunity as calculateArbitrage built it
DetectedPath(profitAmount) ==
    <<Step(ProbeAmount, calculateMinAmount(DetectedBuyQuote)),
      Step(DetectedBuyQuote, calculateMinAmount(ProbeAmount + profitAmount))>>

\* mutant: the buffered estimate is not applied
isStillProfitable_NoGasCost(profitAmount, gasSum, gasPrice) == profitAmount > 0

\* estimateGasCosts: totalGasEstimate * 120n / 100n, times the gas price or,
\* when that is null, times maxGasPrice; profitAfterGas > 0n
isStillProfitable(profitAmount, gasSum, gasPrice) ==
    LET price == IF gasPrice = 0 THEN MaxGasPrice ELSE gasPrice
    IN profitAmount - ((gasSum * 120) \div 100) * price > 0

\* mutant: the degradation check is missing
validationReasons_NoDegradation(detectedBp, currentBp, thr) ==
    IF currentBp * 10 < thr THEN <<"Profit below threshold">> ELSE <<>>

\* validateOpportunity: the reasons collected from the two re-quotes;
\* detectedBp > 0, so (detected - current) / detected > 0.5 iff
\* 2 * (detected - current) > detected
validationReasons(detectedBp, currentBp, thr) ==
    (IF currentBp * 10 < thr THEN <<"Profit below threshold">> ELSE <<>>)
        \o (IF 2 * (detectedBp - currentBp) > detectedBp
            THEN <<"Profit degraded">> ELSE <<>>)

\* mutant: the detected path is kept
adjustedPath_Detected(path, inputAmount, buyQuote, sellQuote) == path

\* validateOpportunity: executionPath of adjustedOpportunity
adjustedPath(path, inputAmount, buyQuote, sellQuote) ==
    <<Step(inputAmount, calculateSlippageProtectedAmount(buyQuote)),
      Step(buyQuote, calculateSlippageProtectedAmount(sellQuote))>>

\* handleOpportunityFound up to its first await
AfterHandle(enabled) == IF enabled THEN "h_ai" ELSE "done"

\* mutant: the handler does not look at riskAssessment.shouldExecute
AfterAssess_IgnoreRisk(shouldExecute) == "h_gas"

\* handleOpportunityFound after assessRisk returned
AfterAssess(shouldExecute) == IF shouldExecute THEN "h_gas" ELSE "done"

(***************************************************************************)
(* The scanner's calculateArbitrage for one pair of pools, poolA on one    *)
(* venue and poolB on another, and what becomes of the opportunity it      *)
(* returns. Amounts of tokenA and tokenB are integers in the token's       *)
(* smallest unit. A venue's getQuote catches its own errors and returns    *)
(* '0'; its estimateGas catches them and returns a default estimate.       *)
(***************************************************************************)
PoolA == [id |-> "poolA", protocol |-> "uniswap_v2"]
PoolB == [id |-> "poolB", protocol |-> "uniswap_v3"]

\* ethers.parseUnits('1', tokenA.decimals) for a token of two and of five decimals
TestAmounts == {ProbeAmount, 1000 * ProbeAmount}

TradeStep(pool, tokenIn, tokenOut, amountIn, amountOutMin) ==
    [protocol |-> pool.protocol, tokenIn |-> tokenIn, tokenOut |-> tokenOut,
     amountIn |-> amountIn, amountOutMin |-> amountOutMin, pool |-> pool.id,
     route |-> <<tokenIn, tokenOut>>]

\* what calculateArbitrage returns when it returns null
NoOpportunity ==
    [kind |-> "null", tokenA |-> "", tokenB |-> "", buyPool |-> "", sellPool |-> "",
     profitBp |-> 0, profitAmount |-> 0, inputAmount |-> 0, gasEstimate |-> 0,
     executionPath |-> <<>>]

\* direction 1 kept whenever it is profitable at all
chosenDirection_FirstPositive(testAmount, q) ==
    IF ProfitBpOf(q.B_back, testAmount) > 0 THEN 1
    ELSE IF ProfitBpOf(q.A_back, testAmount) > 0 THEN 2
    ELSE 0

\* the direction calculateArbitrage keeps: 1 buys on poolA and sells on poolB,
\* 2 buys on poolB and sells on poolA, 0 is none. profitPercent1 and
\* profitPercent2 are whole basis points divided by 100, so comparing them is
\* comparing the basis points.
chosenDirection(testAmount, q) ==
    LET profitBp1 == ProfitBpOf(q.B_back, testAmount)
        profitBp2 == ProfitBpOf(q.A_back, testAmount)
    IN IF profitBp1 > profitBp2 /\ profitBp1 > 0 THEN 1
       ELSE IF profitBp2 > 0 THEN 2
       ELSE 0

\* calculateArbitrage(tokenA, tokenB, poolA, poolB) once its four quotes q and
\* the gas estimates have resolved; gas[p][k] is the estimate of the venue of
\* pool p for a trade of the shape of leg k. The estimates are asked of
\* protocolA for leg 1 and of protocolB for leg 2, and the legs are built from
\* quoteA_to_B and quoteB_back, whichever direction was chosen.
calculateArbitrage(tokenA, tokenB, testAmount, q, gas) ==
    LET dir == chosenDirection(testAmount, q)
        buyPool == IF dir = 1 THEN PoolA ELSE PoolB
        sellPool == IF dir = 1 THEN PoolB ELSE PoolA
        back == IF dir = 1 THEN q.B_back ELSE q.A_back
    IN IF dir = 0 THEN NoOpportunity
       ELSE [kind |-> "opportunity", tokenA |-> tokenA, tokenB |-> tokenB,
             buyPool |-> buyPool.id, sellPool |-> sellPool.id,
             profitBp |-> ProfitBpOf(back, testAmount),
             profitAmount |-> back - testAmount,
             inputAmount |-> testAmount,
             gasEstimate |-> gas[PoolA.id][1] + gas[PoolB.id][2],
             executionPath |->
                 <<TradeStep(buyPool, tokenA, tokenB, testAmount,
                             calculateMinAmount(q.A_to_B)),
                   TradeStep(sellPool, tokenB, tokenA, q.A_to_B,
                             calculateMinAmount(q.B_back))>>]

\* the revalidated copy with its legs in reverse order
adjustedOpportunity_Reversed(opp, currentBuyQuote, currentSellQuote) ==
    [opp EXCEPT !.profitBp = ProfitBpOf(currentSellQuote, opp.inputAmount),
                !.profitAmount = currentSellQuote - opp.inputAmount,
                !.executionPath = <<opp.executionPath[2], opp.executionPath[1]>>]

\* validateOpportunity: the copy it returns for a valid opportunity; the spread
\* keeps every field it does not name, of the opportunity and of each step
adjustedOpportunity(opp, currentBuyQuote, currentSellQuote) ==
    [opp EXCEPT !.profitBp = ProfitBpOf(currentSellQuote, opp.inputAmount),
                !.profitAmount = currentSellQuote - opp.inputAmount,
                !.executionPath =
                    [index \in 1..Len(opp.executionPath) |->
                        [opp.executionPath[index] EXCEPT
                            !.amountIn = IF index = 1 THEN opp.inputAmount
                                         ELSE currentBuyQuote,
                            !.amountOutMin = calculateSlippageProtectedAmount(
                                IF index = 1 THEN currentBuyQuote
                                ELSE currentSellQuote)]]]

NoArb ==
    [pc |-> "idle",
     testAmount |-> ProbeAmount,
     q |-> [A_to_B |-> 0, B_back |-> 0, B_to_A |-> 0, A_back |-> 0],
     gas |-> [p \in {PoolA.id, PoolB.id} |-> <<0, 0>>],
     built |-> NoOpportunity,       \* history: what calculateArbitrage returned
     opp |-> NoOpportunity,         \* the object as the handler holds it
     currentBuyQuote |-> 0,
     currentSellQuote |-> 0,
     copy |-> NoOpportunity]        \* validation.adjustedOpportunity

(***************************************************************************)
(* One scanForOpportunities cycle. The tokens are scanned pair by pair;    *)
(* for each pair every venue is asked for its pools, and calculateArbitrage*)
(* runs for each pair of pools on two venues. A venue's getPools catches   *)
(* its own errors and returns [], its getQuote catches them and returns    *)
(* '0'. An opportunity is kept in the cycle as its profitPercentage * 100. *)
(***************************************************************************)
ScanningTokens == <<"WETH", "USDC", "DAI">>
ScanVenues == <<"uniswap_v2", "sushiswap", "uniswap_v3">>

\* the pairs <<i, j>>, i < j, of 1..n in the order of the two nested loops
RECURSIVE PairsFrom(_, _, _)
PairsFrom(i, j, n) ==
    IF i >= n THEN <<>>
    ELSE IF j > n THEN PairsFrom(i + 1, i + 2, n)
    ELSE <<(<<i, j>>)>> \o PairsFrom(i, j + 1, n)

TokenPairs == PairsFrom(1, 2, Len(ScanningTokens))

\* allPools of scanTokenPair: the venues that returned a pool, in the order of
\* getProtocolsByChain
allPools(discovered) ==
    SelectSeq(ScanVenues, LAMBDA v : discovered[v] = "pools")

\* the pairs of entries of allPools that calculateArbitrage is called for
PoolPairs(discovered) ==
    LET pools == allPools(discovered)
        idx == PairsFrom(1, 2, Len(pools))
    IN [k \in 1..Len(idx) |-> <<pools[idx[k][1]], pools[idx[k][2]]>>]

\* the threshold taken as an exclusive bound
meetsThreshold_Strict(profitBp, thr) == profitBp * 10 > thr

\* opp.profitPercentage >= CONFIG.trading.minProfitThreshold, with
\* profitPercentage * 100 and the threshold * 1000
meetsThreshold(profitBp, thr) == profitBp * 10 >= thr

\* Array.prototype.sort with (a, b) => b.profitPercentage - a.profitPercentage:
\* a stable sort into non-increasing order
RECURSIVE InsertDescending(_, _)
InsertDescending(sorted, x) ==
    IF sorted = <<>> THEN <<x>>
    ELSE IF Head(sorted) >= x THEN <<Head(sorted)>> \o InsertDescending(Tail(sorted), x)
    ELSE <<x>> \o sorted

RECURSIVE SortDescending(_)
SortDescending(s) ==
    IF s = <<>> THEN <<>>
    ELSE InsertDescending(SortDescending(SubSeq(s, 1, Len(s) - 1)), s[Len(s)])

\* validOpportunities of scanForOpportunities
validOpportunities(opportunities, thr) ==
    SortDescending(SelectSeq(opportunities, LAMBDA bp : meetsThreshold(bp, thr)))

NoCycle ==
    [pc |-> "idle",
     thr |-> MinProfitThresholdE3,  \* CONFIG.trading.minProfitThreshold * 1000
     pair |-> 0,                    \* index of the token pair being scanned
     discovered |-> [v \in {ScanVenues[k] : k \in 1..Len(ScanVenues)} |-> "none"],
                                    \* history: what getPools did for that pair
     combo |-> 0,                   \* index of the pool pair being calculated
     evaluated |-> {},              \* history: the pool pairs calculated for that pair
     last |-> [venues |-> <<>>, quoteFailed |-> FALSE, profitBp |-> 0],
                                    \* history: the last calculateArbitrage call
     opportunities |-> <<>>,        \* opportunities of scanForOpportunities
     emitted |-> <<>>]              \* history: the 'opportunity-found' events in order

NoRun ==
    [pc |-> "idle",
     thr |-> MinProfitThresholdE3,  \* CONFIG.trading.minProfitThreshold * 1000
     nativeA |-> FALSE,             \* tokenA.address = ZeroAddress
     nativeB |-> FALSE,             \* tokenB.address = ZeroAddress
     profitAmount |-> 3,            \* opportunity.profitAmount
     inputAmount |-> ProbeAmount,   \* opportunity.inputAmount
     adjusted |-> ProbeAmount,      \* riskAssessment.adjustedPositionSize
     path |-> DetectedPath(3),      \* executionPath of the opportunity in use
     enabled |-> FALSE,             \* history: tradingEnabled when the handler read it
     calls |-> {},                  \* history: the steps of the pipeline attempted
     go |-> FALSE,                  \* history: shouldExecute of the risk assessment
     gasSum |-> 0,                  \* history: sum of the per-leg gas estimates
     gasPrice |-> 0,                \* history: feeData.gasPrice at the estimate
     buyQuote |-> 0,                \* currentBuyQuote
     sellQuote |-> 0,               \* currentSellQuote
     valid |-> "none",              \* validation.isValid
     balance |-> -1,                \* history: balance read, -1: none
     allowance |-> <<-1, -1>>,      \* allowance of tokenA, tokenB as read, -1: none
     approving |-> 0,               \* the token (1: A, 2: B) whose approval is awaited
     approved |-> {},               \* history: tokens whose approval was confirmed
     approvalsSent |-> 0,           \* history: approval transactions broadcast
     legs |-> <<>>,                 \* history: the steps passed to protocol.executeTrade
     txs |-> <<>>,                  \* transactionHashes
     leg |-> 0,                     \* loop index of executeTrades
     finalBalance |-> -1]           \* history: finalBalance as read, -1: none

Init ==
    /\ now \in 0..(DayLen - 1)
    /\ tradingEnabled \in BOOLEAN
    /\ ledger = NewLedger(now)
    /\ isExecuting = FALSE
    /\ pc = [h \in Handlers |-> "idle"]
    /\ ex = [h \in Handlers |-> NoExec]
    /\ lastResult = NoResult
    /\ isRunning = FALSE
    /\ startPc = [s \in Starts |-> "idle"]
    /\ scanInterval = FALSE
    /\ activeTimers = 0
    /\ scans = 0
    /\ estopped = FALSE
    /\ waitingAtStop = {}
    /\ haltedScan = FALSE
    /\ resetsDone = 0
    /\ lastOp = "init"
    /\ request = NoRequest
    /\ assessment = NoAssessment
    /\ blHistory = NoBlHistory
    /\ startsToday = 0
    /\ run = NoRun
    /\ arb = NoArb
    /\ cycle = NoCycle

\* the state in which start() has returned: the scan timer is set
InitStarted ==
    /\ now \in 0..(DayLen - 1)
    /\ tradingEnabled \in BOOLEAN
    /\ ledger = NewLedger(now)
    /\ isExecuting = FALSE
    /\ pc = [h \in Handlers |-> "idle"]
    /\ ex = [h \in Handlers |-> NoExec]
    /\ lastResult = NoResult
    /\ isRunning = TRUE
    /\ startPc = [s \in Starts |-> "idle"]
    /\ scanInterval = TRUE
    /\ activeTimers = 1
    /\ scans = 0
    /\ estopped = FALSE
    /\ waitingAtStop = {}
    /\ haltedScan = FALSE
    /\ resetsDone = 0
    /\ lastOp = "init"
    /\ request = NoRequest
    /\ assessment = NoAssessment
    /\ blHistory = NoBlHistory
    /\ startsToday = 0
    /\ run = NoRun
    /\ arb = NoArb
    /\ cycle = NoCycle

\* the clock advances
Advance ==
    /\ now < MaxNow
    /\ \E t \in (now + 1)..MaxNow : now' = t
    /\ UNCHANGED <<tradingEnabled, ledger, engineVars, traderVars, estopped, waitingAtStop,
                   resetsDone, lastOp, probeVars>>

(***************************************************************************)
(* ArbitrageTrader.setupEventListeners: the execution engine's events      *)
(* drive the ledger                                                        *)
(***************************************************************************)
OnExecutionStarted(l, t) == recordTradeStart(l, t)

OnExecutionSuccess(l, result) == recordTradeEnd(l, result.profit, TRUE)

\* mutant: the 'execution-failed' listener leaves the ledger alone
OnExecutionFailed_NoLedger(l) == l

OnExecutionFailed(l) == recordTradeEnd(l, 0, FALSE)

(***************************************************************************)
(* TradingExecutionEngine.executeOpportunity                               *)
(***************************************************************************)
ExecPcs == {"e_ai", "e_validate", "e_check", "e_next", "e_wait", "e_balance"}

Thrown(err) == [kind |-> "thrown", success |-> FALSE, txs |-> <<>>, sub |-> 0,
                ok |-> 0, profit |-> 0, err |-> err]

\* mutant: the single-flight check is missing
EntryGuard_NoSingleFlight(executing, enabled) ==
    IF ~enabled THEN "disabled" ELSE "enter"

\* mutant: the trading-enabled check is missing
EntryGuard_NoEnabledCheck(executing, enabled) ==
    IF executing THEN "busy" ELSE "enter"

\* the two checks in front of the try block
EntryGuard(executing, enabled) ==
    IF executing THEN "busy"
    ELSE IF ~enabled THEN "disabled"
    ELSE "enter"

\* mutant: a reverted transaction counts as confirmed
ReceiptOk_IgnoreStatus(r) == r \in {"success", "reverted"}

\* receipt present and receipt.status = 1
ReceiptOk(r) == r = "success"

\* mutant: the hash is recorded before the receipt is checked
HashesAfterReceipt_PushFirst(txs, leg, r) == Append(txs, leg)

\* transactionHashes after the receipt of leg arrived
HashesAfterReceipt(txs, leg, r) == IF ReceiptOk(r) THEN Append(txs, leg) ELSE txs

\* mutant: the catch block does not emit 'execution-failed'
Abort_NoEvent(h, err) ==
    /\ lastResult' = [kind |-> "result", success |-> FALSE, txs |-> <<>>,
                      sub |-> ex[h].sub, ok |-> ex[h].ok, profit |-> 0, err |-> err]
    /\ ledger' = ledger
    /\ ex' = [ex EXCEPT ![h] = [NoExec EXCEPT !.open = ex[h].open]]
    /\ pc' = [pc EXCEPT ![h] = "done"]
    /\ isExecuting' = FALSE

\* catch block of executeOpportunity, then finally
Abort(h, err) ==
    /\ lastResult' = [kind |-> "result", success |-> FALSE, txs |-> <<>>,
                      sub |-> ex[h].sub, ok |-> ex[h].ok, profit |-> 0, err |-> err]
    /\ ledger' = OnExecutionFailed(ledger)
    /\ ex' = [ex EXCEPT ![h] = [NoExec EXCEPT !.open = ex[h].open - 1]]
    /\ pc' = [pc EXCEPT ![h] = "done"]
    /\ isExecuting' = FALSE

\* mutant: the guard is not cleared when executeTrades returned a result
Complete_KeepsGuard(h, result) ==
    /\ lastResult' = result
    /\ ledger' = IF result.success THEN OnExecutionSuccess(ledger, result)
                                   ELSE OnExecutionFailed(ledger)
    /\ ex' = [ex EXCEPT ![h] = [NoExec EXCEPT !.open = ex[h].open - 1]]
    /\ pc' = [pc EXCEPT ![h] = "done"]
    /\ isExecuting' = isExecuting

\* executeTrades returned result: record it, emit the event, return, then finally
Complete(h, result) ==
    /\ lastResult' = result
    /\ ledger' = IF result.success THEN OnExecutionSuccess(ledger, result)
                                   ELSE OnExecutionFailed(ledger)
    /\ ex' = [ex EXCEPT ![h] = [NoExec EXCEPT !.open = ex[h].open - 1]]
    /\ pc' = [pc EXCEPT ![h] = "done"]
    /\ isExecuting' = FALSE

\* catch block of executeTrades: the hashes pushed so far, profit '0'
TradesFailed(h, txs, err) ==
    Complete(h, [kind |-> "result", success |-> FALSE, txs |-> txs,
                 sub |-> ex[h].sub, ok |-> ex[h].ok, profit |-> 0, err |-> err])

execFrame == <<now, tradingEnabled, traderVars, estopped, waitingAtStop, resetsDone, lastOp, probeVars>>

\* aiEngine.predictOpportunity resolved inside executeOpportunity
ExecAI(h) ==
    /\ pc[h] = "e_ai"
    /\ \E r \in {"throws", "low", "ok"} :
          IF r = "ok"
          THEN /\ pc' = [pc EXCEPT ![h] = "e_validate"]
               /\ UNCHANGED <<ledger, ex, lastResult, isExecuting>>
          ELSE Abort(h, IF r = "low" THEN "AI confidence too low" ELSE "AI error")
    /\ UNCHANGED execFrame

\* validateOpportunity resolved (both re-quotes)
ExecValidate(h) ==
    /\ pc[h] = "e_validate"
    /\ \E valid \in BOOLEAN :
          IF valid
          THEN /\ pc' = [pc EXCEPT ![h] = "e_check"]
               /\ UNCHANGED <<ledger, ex, lastResult, isExecuting>>
          ELSE Abort(h, "Validation failed")
    /\ UNCHANGED execFrame

\* checkBalancesAndApprovals resolved; executeTrades starts and awaits getAddress
ExecCheck(h) ==
    /\ pc[h] = "e_check"
    /\ \E ok \in BOOLEAN :
          IF ok
          THEN /\ pc' = [pc EXCEPT ![h] = "e_next"]
               /\ ex' = [ex EXCEPT ![h].leg = 1]
               /\ UNCHANGED <<ledger, lastResult, isExecuting>>
          ELSE Abort(h, "Insufficient balance")
    /\ UNCHANGED execFrame

\* loop head of executeTrades: look the protocol up and call protocol.executeTrade
ExecSubmit(h) ==
    /\ pc[h] = "e_next"
    /\ \E found \in BOOLEAN :
          IF found
          THEN /\ pc' = [pc EXCEPT ![h] = "e_wait"]
               /\ ex' = [ex EXCEPT ![h].sub = @ + 1]
               /\ UNCHANGED <<ledger, lastResult, isExecuting>>
          ELSE TradesFailed(h, ex[h].txs, "Protocol not found")
    /\ UNCHANGED execFrame

\* executeTrade and waitForTransaction resolved for the current leg
ExecReceipt(h) ==
    /\ pc[h] = "e_wait"
    /\ \E r \in {"rejects", "missing", "reverted", "success"} :
          LET txs == HashesAfterReceipt(ex[h].txs, ex[h].leg, r)
          IN IF ReceiptOk(r)
             THEN /\ ex' = [ex EXCEPT ![h].txs = txs,
                                      ![h].ok = IF r = "success" THEN @ + 1 ELSE @,
                                      ![h].leg = IF @ < NumLegs THEN @ + 1 ELSE @]
                  /\ pc' = [pc EXCEPT ![h] = IF ex[h].leg < NumLegs THEN "e_next"
                                                                    ELSE "e_balance"]
                  /\ UNCHANGED <<ledger, lastResult, isExecuting>>
             ELSE TradesFailed(h, txs, "Transaction failed")
    /\ UNCHANGED execFrame

\* getTokenBalance resolved after the last leg
ExecBalance(h) ==
    /\ pc[h] = "e_balance"
    /\ \/ TradesFailed(h, ex[h].txs, "Balance read failed")
       \/ \E finalBalance \in FinalBalances :
             Complete(h, [kind |-> "result", success |-> TRUE, txs |-> ex[h].txs,
                          sub |-> ex[h].sub, ok |-> ex[h].ok,
                          profit |-> finalBalance - ex[h].amount, err |-> ""])
    /\ UNCHANGED execFrame

(***************************************************************************)
(* ArbitrageTrader.handleOpportunityFound                                  *)
(***************************************************************************)
\* aiEngine.predictOpportunity resolved; assessRisk runs
HandlerAssess(h) ==
    /\ pc[h] = "h_ai"
    /\ \/ /\ pc' = [pc EXCEPT ![h] = "done"]       \* the prediction threw
          /\ UNCHANGED <<ledger, ex, resetsDone>>
       \/ \E riskScore \in Scores, profitBp \in ProfitsBp :
             /\ ledger' = assessRiskLedger(ledger, now)
             /\ resetsDone' = resetsDone + ResetsBy(ledger, now)
             /\ IF shouldExecuteTrade(ledger', riskScore, profitBp)
                THEN /\ pc' = [pc EXCEPT ![h] = "h_gas"]
                     /\ ex' = [ex EXCEPT ![h].amount =
                                  calculateAdjustedPositionSize(ProbeAmount, riskScore)]
                ELSE /\ pc' = [pc EXCEPT ![h] = "done"]
                     /\ ex' = ex
    /\ UNCHANGED <<now, tradingEnabled, isExecuting, lastResult, traderVars,
                   estopped, waitingAtStop, lastOp, probeVars>>

\* estimateGasCosts resolved; executeOpportunity is called and runs to its first await
HandlerExecute(h) ==
    /\ pc[h] = "h_gas"
    /\ \/ /\ pc' = [pc EXCEPT ![h] = "done"]       \* threw, or not profitable after gas
          /\ ex' = [ex EXCEPT ![h] = NoExec]
          /\ UNCHANGED <<ledger, isExecuting, lastResult>>
       \/ LET g == EntryGuard(isExecuting, tradingEnabled)
          IN IF g = "enter"
             THEN /\ isExecuting' = TRUE
                  /\ ledger' = OnExecutionStarted(ledger, now)
                  /\ ex' = [ex EXCEPT ![h].open = @ + 1]
                  /\ pc' = [pc EXCEPT ![h] = "e_ai"]
                  /\ UNCHANGED lastResult
             ELSE /\ lastResult' = Thrown(g)
                  /\ pc' = [pc EXCEPT ![h] = "refused"]
                  /\ ex' = [ex EXCEPT ![h] = NoExec]
                  /\ UNCHANGED <<ledger, isExecuting>>
    /\ UNCHANGED execFrame

(***************************************************************************)
(* ArbitrageDetector: interval timer and scan cycles                       *)
(***************************************************************************)
IdleUpTo(k) == {h \in Handlers : pc[h] = "idle" /\ h <= k}

\* 'opportunity-found' emitted for the opportunities in S: each handler runs
\* synchronously up to its first await
Launch(S) ==
    pc' = [h \in Handlers |->
              IF h \in S THEN (IF tradingEnabled THEN "h_ai" ELSE "done") ELSE pc[h]]

\* mutant: the timer callback holds the tick back while a trade is executing
ScanTick_WaitsForExecution ==
    /\ ~isExecuting
    /\ activeTimers > 0
    /\ scans < MaxScans
    /\ scans' = scans + 1
    /\ UNCHANGED <<now, tradingEnabled, ledger, engineVars, isRunning, startPc,
                   scanInterval, activeTimers, estopped, waitingAtStop, haltedScan, resetsDone, lastOp, probeVars>>

\* the interval timer fires: a scan cycle begins
ScanTick ==
    /\ activeTimers > 0
    /\ scans < MaxScans
    /\ scans' = scans + 1
    /\ UNCHANGED <<now, tradingEnabled, ledger, engineVars, isRunning, startPc,
                   scanInterval, activeTimers, estopped, waitingAtStop, haltedScan, resetsDone, lastOp, probeVars>>

\* a timer-triggered scan cycle finds no opportunity and completes
ScanFinishEmpty ==
    /\ scans > 0
    /\ scans' = scans - 1
    /\ UNCHANGED <<now, tradingEnabled, ledger, engineVars, isRunning, startPc,
                   scanInterval, activeTimers, estopped, waitingAtStop, haltedScan, resetsDone, lastOp, probeVars>>

\* a timer-triggered scan cycle emits 'opportunity-found' for its opportunities
\* and completes
ScanFinish ==
    /\ scans > 0
    /\ scans' = scans - 1
    /\ \E k \in Handlers : IdleUpTo(k) # {} /\ Launch(IdleUpTo(k))
    /\ UNCHANGED <<now, tradingEnabled, ledger, isExecuting, ex, lastResult, isRunning,
                   startPc, scanInterval, activeTimers, estopped, waitingAtStop, haltedScan,
                   resetsDone, lastOp, probeVars>>

stopScanning_timers == IF scanInterval THEN activeTimers - 1 ELSE activeTimers

(***************************************************************************)
(* ArbitrageTrader.start / stop / emergencyStop, dashboard configuration   *)
(***************************************************************************)
\* start() up to the await of priceMonitor.startMonitoring
Start(s) ==
    /\ startPc[s] = "idle"
    /\ ~isRunning
    /\ isRunning' = TRUE
    /\ startPc' = [startPc EXCEPT ![s] = "monitoring"]
    /\ haltedScan' = FALSE
    /\ UNCHANGED <<now, tradingEnabled, ledger, engineVars, scanInterval, activeTimers,
                   scans, estopped, waitingAtStop, resetsDone, lastOp, probeVars>>

\* startMonitoring resolved; startScanning sets the interval and awaits the initial scan
StartScanning(s) ==
    /\ startPc[s] = "monitoring"
    /\ \/ /\ isRunning' = FALSE                      \* startMonitoring threw
          /\ startPc' = [startPc EXCEPT ![s] = "idle"]
          /\ UNCHANGED <<scanInterval, activeTimers>>
       \/ /\ activeTimers < MaxTimers
          /\ scanInterval' = TRUE
          /\ activeTimers' = activeTimers + 1
          /\ startPc' = [startPc EXCEPT ![s] = "scanning"]
          /\ UNCHANGED isRunning
    /\ UNCHANGED <<now, tradingEnabled, ledger, engineVars, scans, estopped, waitingAtStop,
                   haltedScan, resetsDone, lastOp, probeVars>>

\* the initial scan finds no opportunity and completes; start() returns
StartFinish(s) ==
    /\ startPc[s] = "scanning"
    /\ startPc' = [startPc EXCEPT ![s] = "idle"]
    /\ UNCHANGED <<now, tradingEnabled, ledger, engineVars, isRunning,
                   scanInterval, activeTimers, scans, estopped, waitingAtStop, haltedScan,
                   resetsDone, lastOp, probeVars>>

Stop ==
    /\ isRunning
    /\ isRunning' = FALSE
    /\ activeTimers' = stopScanning_timers
    /\ scanInterval' = FALSE
    /\ UNCHANGED <<now, tradingEnabled, ledger, engineVars, startPc, scans, estopped, waitingAtStop,
                   haltedScan, resetsDone, lastOp, probeVars>>

EmergencyStop ==
    /\ IF isRunning
       THEN /\ isRunning' = FALSE
            /\ activeTimers' = stopScanning_timers
            /\ scanInterval' = FALSE
       ELSE UNCHANGED <<isRunning, activeTimers, scanInterval>>
    /\ tradingEnabled' = FALSE
    /\ estopped' = TRUE
    /\ waitingAtStop' = {h \in Handlers : pc[h] \in {"h_ai", "h_gas"}}
    /\ haltedScan' = TRUE
    /\ UNCHANGED <<now, ledger, engineVars, startPc, scans, resetsDone, lastOp, probeVars>>

\* dashboard PUT /api/config/trading with tradingEnabled in the body
SetTradingEnabled ==
    /\ \E b \in BOOLEAN :
          /\ b # tradingEnabled
          /\ tradingEnabled' = b
          /\ estopped' = IF b THEN FALSE ELSE estopped
          /\ waitingAtStop' = IF b THEN {} ELSE waitingAtStop
    /\ UNCHANGED <<now, ledger, engineVars, traderVars, resetsDone, lastOp, probeVars>>

\* the wired pipeline, from the state in which start() has returned
Next ==
    \/ Advance
    \/ Stop
    \/ EmergencyStop
    \/ SetTradingEnabled
    \/ ScanTick
    \/ ScanFinishEmpty
    \/ ScanFinish
    \/ \E h \in Handlers :
          \/ HandlerAssess(h)
          \/ HandlerExecute(h)
          \/ ExecAI(h)
          \/ ExecValidate(h)
          \/ ExecCheck(h)
          \/ ExecSubmit(h)
          \/ ExecReceipt(h)
          \/ ExecBalance(h)

Spec == InitStarted /\ [][Next]_vars

\* the trader's life cycle, from construction; scans find no opportunity
NextTrader ==
    \/ \E s \in Starts : Start(s) \/ StartScanning(s) \/ StartFinish(s)
    \/ Stop
    \/ EmergencyStop
    \/ SetTradingEnabled
    \/ ScanTick
    \/ ScanFinishEmpty

SpecTrader == Init /\ [][NextTrader]_vars

(***************************************************************************)
(* RiskManager driven directly through its public methods                  *)
(***************************************************************************)
ledgerFrame == <<tradingEnabled, engineVars, traderVars, estopped, waitingAtStop, run,
                 scanVars>>

\* the opportunities the ledger-only specifications assess: the base one, and
\* one whose second asset is never blacklisted
SampleRequests ==
    {Request(BaseOpp, NoPrediction, MinProfitThresholdE3),
     Request([BaseOpp EXCEPT !.tokenB = "0xef"], NoPrediction, MinProfitThresholdE3)}

\* every call but assessRisk leaves no assessment behind
noAssessment == request' = NoRequest /\ assessment' = NoAssessment

\* the UTC day the clock is in
Day(t) == t \div DayLen

\* assessRisk called with one of the requests in reqs
AssessRiskOf(reqs) ==
    /\ \E req \in reqs :
          /\ request' = req
          /\ assessment' = assessRisk(ledger, now, req.opp, req.ai, req.thr)
    /\ ledger' = assessRiskLedger(ledger, now)
    /\ resetsDone' = resetsDone + ResetsBy(ledger, now)
    /\ lastOp' = "assess"
    /\ UNCHANGED <<now, blHistory, startsToday, ledgerFrame>>

L_AssessRisk == AssessRiskOf(SampleRequests)

\* recordTradeStart, explored while dailyTrades is below cap
RecordTradeStartBelow(cap) ==
    /\ ledger.dailyTrades < cap
    /\ ledger.activeTrades < MaxTrades
    /\ ledger' = recordTradeStart(ledger, now)
    /\ startsToday' = startsToday + 1
    /\ lastOp' = "start"
    /\ noAssessment
    /\ UNCHANGED <<now, resetsDone, blHistory, ledgerFrame>>

L_RecordTradeStart == RecordTradeStartBelow(MaxTrades)

L_RecordTradeEnd ==
    /\ \E a \in EndAmounts, success \in BOOLEAN :
          /\ ledger.dailyVolume + a <= MaxVolume
          /\ ledger' = recordTradeEnd(ledger, a, success)
    /\ lastOp' = "end"
    /\ noAssessment
    /\ UNCHANGED <<now, resetsDone, blHistory, startsToday, ledgerFrame>>

L_Blacklist ==
    /\ \/ \E a \in TokenAddrs :
             /\ ledger' = addTokenToBlacklist(ledger, a)
             /\ blHistory' = [blHistory EXCEPT !.tokens = @ \cup Spellings(a)]
             /\ request' = BlacklistCall("addTokenToBlacklist", a)
       \/ \E a \in TokenAddrs :
             /\ ledger' = removeTokenFromBlacklist(ledger, a)
             /\ blHistory' = [blHistory EXCEPT !.tokens = @ \ Spellings(a)]
             /\ request' = BlacklistCall("removeTokenFromBlacklist", a)
       \/ \E p \in ProtocolNames :
             /\ ledger' = addProtocolToBlacklist(ledger, p)
             /\ blHistory' = [blHistory EXCEPT !.protocols = @ \cup {p}]
             /\ request' = BlacklistCall("addProtocolToBlacklist", p)
       \/ \E p \in ProtocolNames :
             /\ ledger' = removeProtocolFromBlacklist(ledger, p)
             /\ blHistory' = [blHistory EXCEPT !.protocols = @ \ {p}]
             /\ request' = BlacklistCall("removeProtocolFromBlacklist", p)
    /\ assessment' = NoAssessment
    /\ lastOp' = "blacklist"
    /\ UNCHANGED <<now, resetsDone, startsToday, ledgerFrame>>

L_Advance ==
    /\ now < MaxNow
    /\ \E t \in (now + 1)..MaxNow : now' = t
    /\ startsToday' = IF Day(now') = Day(now) THEN startsToday ELSE 0
    /\ lastOp' = "advance"
    /\ noAssessment
    /\ UNCHANGED <<ledger, resetsDone, blHistory, ledgerFrame>>

NextLedger ==
    \/ L_AssessRisk
    \/ L_RecordTradeStart
    \/ L_RecordTradeEnd
    \/ L_Blacklist
    \/ L_Advance

SpecLedger == Init /\ [][NextLedger]_vars

(***************************************************************************)
(* The RiskManager's trade counters over long call sequences: assessRisk,  *)
(* recordTradeStart up to and past the daily cap, recordTradeEnd, the clock*)
(***************************************************************************)
\* recordTradeStart calls followed beyond the daily cap of 50
MaxOverCap == 1

K_RecordTradeStart == RecordTradeStartBelow(DailyTradeLimit + MaxOverCap)

\* recordTradeEnd(inputAmount, success); the volume is left out of the amounts
K_RecordTradeEnd ==
    /\ ledger.activeTrades > 0
    /\ \E success \in BOOLEAN : ledger' = recordTradeEnd(ledger, 0, success)
    /\ lastOp' = "end"
    /\ noAssessment
    /\ UNCHANGED <<now, resetsDone, blHistory, startsToday, ledgerFrame>>

NextCaps ==
    \/ L_AssessRisk
    \/ K_RecordTradeStart
    \/ K_RecordTradeEnd
    \/ L_Advance

SpecCaps == Init /\ [][NextCaps]_vars

(***************************************************************************)
(* RiskManager.assessRisk as a function of its arguments, the              *)
(* configuration, the ledger and the clock                                 *)
(***************************************************************************)
\* the clock value of a late assessment (the opportunities are built at 0)
MaxAge == 3

\* symbols of tokenA and tokenB: a stablecoin pair, a major-token pair, neither
SymbolPairs == {<<"USDC", "DAI">>, <<"WETH", "USDC">>, <<"XYZ", "USDC">>}
\* buy and sell venue: one trusted venue, or a second, unknown one
ProtocolPairs == {<<"uniswap_v2", "uniswap_v2">>, <<"uniswap_v2", "shadyswap">>}
\* parseFloat(sellPool.liquidity) || 0; the buy pool is deep
SellLiquidities == {0, 5000, 1000000}
\* inputAmount: a third of a token, the probe amount, 200 tokens, 600 tokens
InputAmounts == {33, ProbeAmount, 20000, 60000}
\* profitPercentage * 100
AssessedProfitsBp == {0, 15, 30, 120, 600}
\* aiPrediction: omitted, favourable, middling, unfavourable
Predictions ==
    {NoPrediction,
     [kind |-> "prediction", confidence |-> 90, riskScore |-> 50, executionProbability |-> 60],
     [kind |-> "prediction", confidence |-> 60, riskScore |-> 70, executionProbability |-> 60],
     [kind |-> "prediction", confidence |-> 40, riskScore |-> 90, executionProbability |-> 40]}
\* CONFIG.trading.minProfitThreshold * 1000: the default 0.005, and 0.5 set
\* through the dashboard
ThresholdsE3 == {MinProfitThresholdE3, 500}

RiskOpportunities ==
    {[BaseOpp EXCEPT !.symA = sym[1], !.symB = sym[2],
                     !.buyProtocol = pr[1], !.sellProtocol = pr[2],
                     !.sellLiquidity = liq, !.inputAmount = amt, !.profitBp = bp] :
        sym \in SymbolPairs, pr \in ProtocolPairs, liq \in SellLiquidities,
        amt \in InputAmounts, bp \in AssessedProfitsBp}

RiskRequests ==
    {Request(opp, ai, thr) : opp \in RiskOpportunities, ai \in Predictions,
                             thr \in ThresholdsE3}

\* ledgers the RiskManager can hold at time t after a reset in the current day:
\* no trade / the daily cap reached, no active trade / three, little volume /
\* volume at the limit, either asset or the venue blacklisted
LedgerSamples(t) ==
    {[NewLedger(t) EXCEPT !.dailyTrades = dt, !.activeTrades = at, !.dailyVolume = dv,
                          !.blacklistedTokens = bt, !.blacklistedProtocols = bp] :
        dt \in {0, DailyTradeLimit}, at \in {0, MaxActiveTrades},
        dv \in {0, DailyVolumeLimit - 50},
        bt \in {{}, {"0xab"}, {"0xcd"}}, bp \in {{}, {"uniswap_v2"}}}

InitAssess ==
    /\ now \in {0, MaxAge}
    /\ tradingEnabled = TRUE
    /\ ledger \in LedgerSamples(now)
    /\ isExecuting = FALSE
    /\ pc = [h \in Handlers |-> "idle"]
    /\ ex = [h \in Handlers |-> NoExec]
    /\ lastResult = NoResult
    /\ isRunning = FALSE
    /\ startPc = [s \in Starts |-> "idle"]
    /\ scanInterval = FALSE
    /\ activeTimers = 0
    /\ scans = 0
    /\ estopped = FALSE
    /\ waitingAtStop = {}
    /\ haltedScan = FALSE
    /\ resetsDone = 0
    /\ lastOp = "init"
    /\ request = NoRequest
    /\ assessment = NoAssessment
    /\ blHistory = [tokens |-> UNION {Spellings(a) : a \in ledger.blacklistedTokens},
                    protocols |-> ledger.blacklistedProtocols]
    /\ startsToday = 0
    /\ run = NoRun
    /\ arb = NoArb
    /\ cycle = NoCycle

\* the first assessRisk call on that ledger
A_AssessRisk == lastOp = "init" /\ AssessRiskOf(RiskRequests)

SpecAssess == InitAssess /\ [][A_AssessRisk]_vars

(***************************************************************************)
(* The single-opportunity specification                                    *)
(***************************************************************************)
runFrame == <<now, pc, ex, traderVars, estopped, waitingAtStop, resetsDone, lastOp, riskVars,
              scanVars>>

\* the opportunity as assessRisk sees it
RunOpp == [BaseOpp EXCEPT !.profitBp = ProfitBpOf(ProbeAmount + run.profitAmount, ProbeAmount),
                          !.inputAmount = run.inputAmount,
                          !.tokenA = IF run.nativeA THEN "0x00" ELSE "0xAB",
                          !.tokenB = IF run.nativeB THEN "0x00" ELSE "0xcd"]

InitRun ==
    /\ now = 0
    /\ tradingEnabled \in BOOLEAN
    /\ ledger = NewLedger(now)
    /\ isExecuting = FALSE
    /\ pc = [h \in Handlers |-> "idle"]
    /\ ex = [h \in Handlers |-> NoExec]
    /\ lastResult = NoResult
    /\ isRunning = FALSE
    /\ startPc = [s \in Starts |-> "idle"]
    /\ scanInterval = FALSE
    /\ activeTimers = 0
    /\ scans = 0
    /\ estopped = FALSE
    /\ waitingAtStop = {}
    /\ haltedScan = FALSE
    /\ resetsDone = 0
    /\ lastOp = "init"
    /\ request = NoRequest
    /\ assessment = NoAssessment
    /\ blHistory = NoBlHistory
    /\ startsToday = 0
    /\ \E thr \in RunThresholdsE3, nat \in {<<FALSE, FALSE>>, <<TRUE, FALSE>>, <<FALSE, TRUE>>},
          p \in DetectedProfits :
          run = [NoRun EXCEPT !.thr = thr, !.nativeA = nat[1], !.nativeB = nat[2],
                              !.profitAmount = p, !.path = DetectedPath(p)]
    /\ arb = NoArb
    /\ cycle = NoCycle

\* 'opportunity-found': handleOpportunityFound runs to its first await
R_Handle ==
    /\ run.pc = "idle"
    /\ run' = [run EXCEPT !.pc = AfterHandle(tradingEnabled),
                          !.enabled = tradingEnabled,
                          !.calls = IF AfterHandle(tradingEnabled) = "h_ai"
                                    THEN {"predict"} ELSE {}]
    /\ UNCHANGED <<tradingEnabled, ledger, isExecuting, lastResult, runFrame>>

\* the handler leaves through its catch block or a return
RunSkipped == [run EXCEPT !.pc = "done"]

\* aiEngine.predictOpportunity resolved; assessRisk runs
R_Assess ==
    /\ run.pc = "h_ai"
    /\ \/ /\ run' = RunSkipped                      \* the prediction threw
          /\ UNCHANGED ledger
       \/ \E ai \in Predictions \ {NoPrediction} :
             LET a == assessRisk(ledger, now, RunOpp, ai, run.thr)
             IN /\ ledger' = assessRiskLedger(ledger, now)
                /\ run' = [run EXCEPT !.pc = AfterAssess(a.shouldExecute),
                                      !.calls = @ \cup {"assess"}
                                                  \cup (IF AfterAssess(a.shouldExecute) = "h_gas"
                                                        THEN {"gas"} ELSE {}),
                                      !.go = a.shouldExecute,
                                      !.adjusted =
                                          IF AfterAssess(a.shouldExecute) = "h_gas"
                                          THEN a.adjustedPositionSize ELSE @]
    /\ UNCHANGED <<tradingEnabled, isExecuting, lastResult, runFrame>>

\* catch block of executeOpportunity, then finally
RunFailed(r, err) ==
    /\ run' = [r EXCEPT !.pc = "done"]
    /\ lastResult' = [kind |-> "result", success |-> FALSE, txs |-> <<>>,
                      sub |-> Len(r.legs), ok |-> Len(r.txs), profit |-> 0, err |-> err]
    /\ ledger' = OnExecutionFailed(ledger)
    /\ isExecuting' = FALSE

\* executeTrades returned: record the result, emit its event, return, then finally
RunComplete(r, success, txs, profit, err) ==
    /\ run' = [r EXCEPT !.pc = "done"]
    /\ lastResult' = [kind |-> "result", success |-> success, txs |-> txs,
                      sub |-> Len(r.legs), ok |-> Len(r.txs), profit |-> profit,
                      err |-> err]
    /\ ledger' = IF success THEN OnExecutionSuccess(ledger, lastResult')
                            ELSE OnExecutionFailed(ledger)
    /\ isExecuting' = FALSE

\* estimateGasCosts resolved; the position size is adjusted; executeOpportunity
\* is called and runs to its first await
R_Gas ==
    /\ run.pc = "h_gas"
    /\ \/ /\ run' = RunSkipped                      \* an estimate or getFeeData threw
          /\ UNCHANGED <<ledger, isExecuting, lastResult>>
       \/ \E g1 \in GasEstimates, g2 \in GasEstimates, price \in GasPrices :
             LET r == [run EXCEPT !.gasSum = g1 + g2, !.gasPrice = price]
                 g == EntryGuard(isExecuting, tradingEnabled)
             IN IF ~isStillProfitable(run.profitAmount, g1 + g2, price)
                THEN /\ run' = [r EXCEPT !.pc = "done"]
                     /\ UNCHANGED <<ledger, isExecuting, lastResult>>
                ELSE IF g = "enter"
                THEN /\ run' = [r EXCEPT !.pc = "e_ai", !.inputAmount = run.adjusted,
                                         !.calls = @ \cup {"execute"}]
                     /\ isExecuting' = TRUE
                     /\ ledger' = OnExecutionStarted(ledger, now)
                     /\ UNCHANGED lastResult
                ELSE /\ run' = [r EXCEPT !.pc = "done", !.inputAmount = run.adjusted,
                                         !.calls = @ \cup {"execute"}]
                     /\ lastResult' = Thrown(g)
                     /\ UNCHANGED <<ledger, isExecuting>>
    /\ UNCHANGED <<tradingEnabled, runFrame>>

\* aiEngine.predictOpportunity resolved inside executeOpportunity
R_ExecAI ==
    /\ run.pc = "e_ai"
    /\ \E r \in {"throws", "low", "ok"} :
          IF r = "ok"
          THEN /\ run' = [run EXCEPT !.pc = "e_validate"]
               /\ UNCHANGED <<ledger, isExecuting, lastResult>>
          ELSE RunFailed(run, IF r = "low" THEN "AI confidence too low" ELSE "AI error")
    /\ UNCHANGED <<tradingEnabled, runFrame>>

\* validateOpportunity: both re-quotes resolved
R_Validate ==
    /\ run.pc = "e_validate"
    /\ \/ RunFailed([run EXCEPT !.valid = "invalid"], "Validation failed")  \* a quote threw
       \/ \E bq \in BuyQuotes, sq \in SellQuotes :
             LET reasons == validationReasons(RunOpp.profitBp,
                                              ProfitBpOf(sq, run.inputAmount), run.thr)
                 r == [run EXCEPT !.buyQuote = bq, !.sellQuote = sq]
             IN IF reasons = <<>>
                THEN /\ run' = [r EXCEPT !.pc = "e_balance", !.valid = "valid",
                                         !.path = adjustedPath(run.path, run.inputAmount,
                                                               bq, sq)]
                     /\ UNCHANGED <<ledger, isExecuting, lastResult>>
                ELSE RunFailed([r EXCEPT !.valid = "invalid"], "Validation failed")
    /\ UNCHANGED <<tradingEnabled, runFrame>>

\* position after the balance check (k = 0), after tokenA's approval check
\* (k = 1), after tokenB's (k = 2)
AfterCheck(k) ==
    IF k < 1 /\ ~run.nativeA THEN "e_allowA"
    ELSE IF k < 2 /\ ~run.nativeB THEN "e_allowB"
    ELSE "e_leg"

\* checkBalancesAndApprovals: the balance of tokenA was read
R_Balance ==
    /\ run.pc = "e_balance"
    /\ \E b \in Balances :
          IF b < run.inputAmount
          THEN RunFailed([run EXCEPT !.balance = b], "Insufficient balance")
          ELSE /\ run' = [run EXCEPT !.balance = b, !.pc = AfterCheck(0)]
               /\ UNCHANGED <<ledger, isExecuting, lastResult>>
    /\ UNCHANGED <<tradingEnabled, runFrame>>

\* the amount ensureApproval is called with for tokenA (k = 1), tokenB (k = 2)
ApprovalAmount(k) == IF k = 1 THEN run.inputAmount ELSE run.path[1].amountOutMin

\* ensureApproval: the allowance was read; if it is below the amount, approve
\* is called on a contract that is connected to the provider only, which
\* either throws or yields a transaction that is signed and broadcast
R_Allowance ==
    /\ run.pc \in {"e_allowA", "e_allowB"}
    /\ LET k == IF run.pc = "e_allowA" THEN 1 ELSE 2
       IN \E a \in (IF k = 1 THEN AllowancesA ELSE AllowancesB) :
             LET r == [run EXCEPT !.allowance[k] = a]
             IN IF a < ApprovalAmount(k)
                THEN \/ RunFailed(r, "approve failed")
                     \/ /\ run' = [r EXCEPT !.pc = "e_approve", !.approving = k,
                                            !.approvalsSent = @ + 1]
                        /\ UNCHANGED <<ledger, isExecuting, lastResult>>
                ELSE /\ run' = [r EXCEPT !.pc = AfterCheck(k)]
                     /\ UNCHANGED <<ledger, isExecuting, lastResult>>
    /\ UNCHANGED <<tradingEnabled, runFrame>>

\* txResponse.wait() of the approval resolved
R_Approval ==
    /\ run.pc = "e_approve"
    /\ \/ RunFailed(run, "approval failed")
       \/ /\ run' = [run EXCEPT !.pc = AfterCheck(run.approving),
                                !.approved = @ \cup {run.approving},
                                !.allowance[run.approving] = MaxUint,
                                !.approving = 0]
          /\ UNCHANGED <<ledger, isExecuting, lastResult>>
    /\ UNCHANGED <<tradingEnabled, runFrame>>

\* loop head of executeTrades: the next step is passed to protocol.executeTrade
R_Submit ==
    /\ run.pc = "e_leg"
    /\ run' = [run EXCEPT !.pc = "e_receipt", !.leg = @ + 1,
                          !.legs = Append(@, run.path[run.leg + 1])]
    /\ UNCHANGED <<tradingEnabled, ledger, isExecuting, lastResult, runFrame>>

\* executeTrade and waitForTransaction resolved for the current leg
R_Receipt ==
    /\ run.pc = "e_receipt"
    /\ \E rc \in {"rejects", "missing", "reverted", "success"} :
          LET txs == HashesAfterReceipt(run.txs, run.leg, rc)
          IN IF ReceiptOk(rc)
             THEN /\ run' = [run EXCEPT !.txs = txs,
                                        !.pc = IF run.leg < NumLegs THEN "e_leg"
                                                                     ELSE "e_final"]
                  /\ UNCHANGED <<ledger, isExecuting, lastResult>>
             ELSE RunComplete(run, FALSE, txs, 0, "Transaction failed")
    /\ UNCHANGED <<tradingEnabled, runFrame>>

\* the profit taken against the probe amount of the detection
actualProfit_Detected(finalBalance, inputAmount) == finalBalance - ProbeAmount

\* finalBalance - BigInt(opportunity.inputAmount) of the validated opportunity
actualProfit(finalBalance, inputAmount) == finalBalance - inputAmount

\* getTokenBalance resolved after the last leg
R_Final ==
    /\ run.pc = "e_final"
    /\ \/ RunComplete(run, FALSE, run.txs, 0, "Balance read failed")
       \/ \E finalBalance \in FinalBalances :
             RunComplete([run EXCEPT !.finalBalance = finalBalance], TRUE, run.txs,
                         actualProfit(finalBalance, run.inputAmount), "")
    /\ UNCHANGED <<tradingEnabled, runFrame>>

\* the dashboard toggles tradingEnabled while the handler is waiting
R_SetTradingEnabled ==
    /\ run.pc \in {"idle", "h_ai", "h_gas"}
    /\ tradingEnabled' = ~tradingEnabled
    /\ UNCHANGED <<ledger, isExecuting, lastResult, run, runFrame>>

NextRun ==
    \/ R_Handle
    \/ R_Assess
    \/ R_Gas
    \/ R_ExecAI
    \/ R_Validate
    \/ R_Balance
    \/ R_Allowance
    \/ R_Approval
    \/ R_Submit
    \/ R_Receipt
    \/ R_Final
    \/ R_SetTradingEnabled

SpecRun == InitRun /\ [][NextRun]_vars

(***************************************************************************)
(* The opportunity-building specification: one calculateArbitrage call on  *)
(* drawn quotes, the handler's size adjustment of the opportunity it       *)
(* returned, and the revalidation of that opportunity.                     *)
(***************************************************************************)
\* everything but the scanner at rest
InitQuiet ==
    /\ now = 0
    /\ tradingEnabled = TRUE
    /\ ledger = NewLedger(now)
    /\ isExecuting = FALSE
    /\ pc = [h \in Handlers |-> "idle"]
    /\ ex = [h \in Handlers |-> NoExec]
    /\ lastResult = NoResult
    /\ isRunning = FALSE
    /\ startPc = [s \in Starts |-> "idle"]
    /\ scanInterval = FALSE
    /\ activeTimers = 0
    /\ scans = 0
    /\ estopped = FALSE
    /\ waitingAtStop = {}
    /\ haltedScan = FALSE
    /\ resetsDone = 0
    /\ lastOp = "init"
    /\ request = NoRequest
    /\ assessment = NoAssessment
    /\ blHistory = NoBlHistory
    /\ startsToday = 0
    /\ run = NoRun

\* getQuote(tokenA, tokenB, testAmount, pool): '0' after a failure, or an
\* amount of tokenB
FirstHopQuotes == {0, 120, 125}
\* what a round trip returns beyond the amount that entered it
RoundTripGains == {0 - 10, 3, 7, 100, 103}
\* the quotes of one direction: the second quote of a failed first one is '0',
\* a second quote can fail by itself
DirectionQuotes(amount) ==
    {<<0, 0>>} \cup {<<hop, back>> : hop \in FirstHopQuotes \ {0},
                                    back \in {0} \cup {amount + g : g \in RoundTripGains}}
\* estimateGas of a venue for a trade of the shape of leg 1 and of leg 2
VenueGasEstimates == {<<1, 2>>, <<3, 5>>}
\* risk scores of approved assessments, one in each band of the position size
ApprovedScores == {10, 20, 40, 60}

InitArb ==
    /\ InitQuiet
    /\ cycle = NoCycle
    /\ \E t \in TestAmounts, gA \in VenueGasEstimates, gB \in VenueGasEstimates :
          \E d1 \in DirectionQuotes(t), d2 \in DirectionQuotes(t) :
             arb = [NoArb EXCEPT
                       !.testAmount = t,
                       !.q = [A_to_B |-> d1[1], B_back |-> d1[2],
                              B_to_A |-> d2[1], A_back |-> d2[2]],
                       !.gas = [p \in {PoolA.id, PoolB.id} |->
                                   IF p = PoolA.id THEN gA ELSE gB]]

arbFrame == <<now, tradingEnabled, ledger, engineVars, traderVars, estopped, waitingAtStop,
              resetsDone, lastOp, riskVars, run, cycle>>

\* calculateArbitrage returns
Q_Calculate ==
    /\ arb.pc = "idle"
    /\ LET o == calculateArbitrage("0xAB", "0xcd", arb.testAmount, arb.q, arb.gas)
       IN arb' = [arb EXCEPT !.pc = IF o.kind = "null" THEN "done" ELSE "built",
                             !.built = o, !.opp = o]
    /\ UNCHANGED arbFrame

\* handleOpportunityFound: the risk assessment approved the opportunity and
\* its adjusted position size is written into it
Q_Adjust ==
    /\ arb.pc = "built"
    /\ \E riskScore \in ApprovedScores :
          arb' = [arb EXCEPT !.pc = "handled",
                             !.opp.inputAmount =
                                 calculateAdjustedPositionSize(@, riskScore)]
    /\ UNCHANGED arbFrame

\* validateOpportunity: both re-quotes resolved
Q_Validate ==
    /\ arb.pc = "handled"
    /\ \E d \in DirectionQuotes(arb.opp.inputAmount) :
          LET reasons == validationReasons(arb.opp.profitBp,
                                           ProfitBpOf(d[2], arb.opp.inputAmount),
                                           MinProfitThresholdE3)
          IN arb' = [arb EXCEPT !.pc = IF reasons = <<>> THEN "valid" ELSE "invalid",
                                !.currentBuyQuote = d[1],
                                !.currentSellQuote = d[2],
                                !.copy = IF reasons = <<>>
                                         THEN adjustedOpportunity(arb.opp, d[1], d[2])
                                         ELSE NoOpportunity]
    /\ UNCHANGED arbFrame

NextArb ==
    \/ Q_Calculate
    \/ Q_Adjust
    \/ Q_Validate

SpecArb == InitArb /\ [][NextArb]_vars

(***************************************************************************)
(* The scan-cycle specification                                            *)
(***************************************************************************)
\* CONFIG.trading.minProfitThreshold * 1000: the default 0.005, and 3 set
\* through MIN_PROFIT_THRESHOLD
ScanThresholdsE3 == {MinProfitThresholdE3, 3000}

\* what getPools of a venue does for a pair: returns its pool, returns []
\* because it has none, returns [] from its catch block
Discoveries == {"pools", "none", "failed"}

Quotes(a2b, bBack, b2a, aBack) ==
    [A_to_B |-> a2b, B_back |-> bBack, B_to_A |-> b2a, A_back |-> aBack]

\* the four quotes of one calculateArbitrage call: direction 1 gains 3,
\* direction 2 gains 1, neither gains, the first venue's first quote failed
\* and direction 2 gains 1, the second venue's back quote failed and
\* direction 2 gains 3, every quote failed
ScanQuotes ==
    {Quotes(120, 103, 125, 90), Quotes(120, 90, 125, 101), Quotes(120, 90, 125, 90),
     Quotes(0, 0, 125, 101), Quotes(120, 0, 125, 103), Quotes(0, 0, 0, 0)}

quoteFailed(q) == q.A_to_B = 0 \/ q.B_back = 0 \/ q.B_to_A = 0 \/ q.A_back = 0

ScanGas == [p \in {PoolA.id, PoolB.id} |-> <<1, 2>>]

InitScan ==
    /\ InitQuiet
    /\ arb = NoArb
    /\ \E thr \in ScanThresholdsE3 : cycle = [NoCycle EXCEPT !.thr = thr]

scanFrame == <<now, tradingEnabled, ledger, engineVars, traderVars, estopped, waitingAtStop,
               resetsDone, lastOp, riskVars, run, arb>>

\* scanTokenPair returned for pair c.pair: the next pair's scanTokenPair runs
\* to its first getPools, or, after the last pair, the opportunities are
\* filtered, sorted and emitted one after the other and the cycle ends
AfterPair(c) ==
    IF c.pair < Len(TokenPairs)
    THEN [c EXCEPT !.pc = "discover", !.pair = @ + 1]
    ELSE [c EXCEPT !.pc = "done", !.pair = @ + 1,
                   !.emitted = validOpportunities(c.opportunities, c.thr)]

\* scanForOpportunities is called and reaches the first getPools
S_Start ==
    /\ cycle.pc = "idle"
    /\ cycle' = [cycle EXCEPT !.pc = "discover", !.pair = 1]
    /\ UNCHANGED scanFrame

\* every venue's getPools resolved for the pair
S_Discover ==
    /\ cycle.pc = "discover"
    /\ \E d \in [DOMAIN cycle.discovered -> Discoveries] :
          LET c == [cycle EXCEPT !.discovered = d, !.evaluated = {}, !.combo = 0,
                                 !.last = NoCycle.last]
          IN cycle' = IF Len(allPools(d)) < 2 THEN AfterPair(c)
                      ELSE [c EXCEPT !.pc = "calculate", !.combo = 1]
    /\ UNCHANGED scanFrame

\* calculateArbitrage returned for the pool pair cycle.combo
S_Calculate ==
    /\ cycle.pc = "calculate"
    /\ \E q \in ScanQuotes :
          LET tokens == TokenPairs[cycle.pair]
              venues == PoolPairs(cycle.discovered)[cycle.combo]
              o == calculateArbitrage(ScanningTokens[tokens[1]], ScanningTokens[tokens[2]],
                                      ProbeAmount, q, ScanGas)
              c == [cycle EXCEPT
                       !.evaluated = @ \cup {venues},
                       !.last = [venues |-> venues, quoteFailed |-> quoteFailed(q),
                                 profitBp |-> o.profitBp],
                       !.opportunities = IF o.kind = "null" THEN @
                                         ELSE Append(@, o.profitBp)]
          IN cycle' = IF cycle.combo < Len(PoolPairs(cycle.discovered))
                      THEN [c EXCEPT !.combo = @ + 1]
                      ELSE AfterPair(c)
    /\ UNCHANGED scanFrame

NextScan ==
    \/ S_Start
    \/ S_Discover
    \/ S_Calculate

SpecScan == InitScan /\ [][NextScan]_vars



(***************************************************************************)
(* Properties                                                              *)
(***************************************************************************)
Executing == {h \in Handlers : pc[h] \in ExecPcs}

\* the hashes of legs 1..n in leg order
LegHashes(n) == [i \in 1..n |-> i]

\* C1 (single-flight): at most one executeOpportunity call is between
\* isExecuting = true and the finally block at any time, and a call refused
\* because another one was in flight stays refused: its opportunity is never
\* started, submitted or queued afterwards.
C1_SingleFlight ==
    /\ [](Cardinality(Executing) <= 1)
    /\ [][\A h \in Handlers :
             /\ pc[h] = "refused" => pc'[h] = "refused" /\ ex'[h] = NoExec
             /\ pc'[h] = "refused" /\ lastResult' = Thrown("busy")
                   => pc[h] = "refused" \/ Executing \ {h} # {}]_vars

\* a call was refused while another execution is in flight
C1_Witness ==
    \E h, g \in Handlers :
        /\ pc[h] = "refused"
        /\ lastResult = Thrown("busy")
        /\ pc[g] \in ExecPcs

\* C2 (leg sequencing): in every execution the number of legs passed to
\* protocol.executeTrade is at most one more than the number of legs whose
\* receipt came back with status 1, in flight and in the returned result; so
\* leg i+1 is submitted only after leg i confirmed, and after a failed leg
\* nothing more is submitted.
C2_LegSequencing ==
    /\ \A h \in Handlers :
          /\ ex[h].sub <= ex[h].ok + 1
          /\ pc[h] = "e_next" => ex[h].sub = ex[h].ok /\ ex[h].leg = ex[h].ok + 1
    /\ lastResult.sub <= lastResult.ok + 1
    /\ lastResult.kind = "result" /\ ~lastResult.success /\ lastResult.sub > 0
          /\ lastResult.err = "Transaction failed"
          => lastResult.sub = lastResult.ok + 1

\* the second leg is submitted, the first one being confirmed
C2_Witness ==
    \E h \in Handlers : pc[h] = "e_wait" /\ ex[h].sub = 2 /\ ex[h].ok = 1

\* C3 (partial-failure result): a result's transactionHashes are the hashes of
\* legs 1..n in leg order for some n <= number of legs; success implies n is the
\* number of legs; when leg k fails confirmation, success is false and the
\* hashes are exactly those of legs 1..k-1.
C3_PartialFailureResult ==
    lastResult.kind = "result" =>
        /\ Len(lastResult.txs) <= NumLegs
        /\ lastResult.txs = LegHashes(Len(lastResult.txs))
        /\ lastResult.success => Len(lastResult.txs) = NumLegs
        /\ lastResult.err = "Transaction failed" =>
              /\ ~lastResult.success
              /\ lastResult.txs = LegHashes(lastResult.sub - 1)

\* leg 1 confirmed, leg 2 failed: exactly leg 1's hash
C3_Witness ==
    /\ lastResult.kind = "result"
    /\ ~lastResult.success
    /\ lastResult.err = "Transaction failed"
    /\ lastResult.sub = 2
    /\ lastResult.txs = <<1>>

\* C4 (always a result), as claimed: no executeOpportunity call rejects, and a
\* result of a call that submitted nothing has success = false, no hashes,
\* profit '0' and an error text.
C4_AlwaysResult ==
    /\ lastResult.kind # "thrown"
    /\ lastResult.kind = "result" /\ lastResult.sub = 0 =>
          /\ ~lastResult.success
          /\ lastResult.txs = <<>>
          /\ lastResult.profit = 0
          /\ lastResult.err # ""

\* C5 (start/end pairing): every call has had one 'execution-started' more than
\* 'execution-success'/'execution-failed' events exactly while it is executing,
\* and as many otherwise (never an end without a start), and activeTrades is the
\* number of executions in flight.
C5_StartEndPaired ==
    /\ \A h \in Handlers : ex[h].open = IF pc[h] \in ExecPcs THEN 1 ELSE 0
    /\ ledger.activeTrades = Cardinality(Executing)

\* an execution ended through the catch block and the ledger is back at zero
C5_Witness ==
    /\ lastResult.kind = "result"
    /\ lastResult.err = "AI error"
    /\ ledger.activeTrades = 0
    /\ \E h \in Handlers : pc[h] = "done" /\ ex[h].open = 0

\* C6 (counters never negative), as claimed
C6_CountersNonNegative ==
    /\ ledger.dailyTrades >= 0
    /\ ledger.activeTrades >= 0
    /\ ledger.dailyVolume >= 0

\* number of UTC day boundaries the clock has passed since construction
BoundariesCrossed(t) == IF t > DayLen THEN (t - 1) \div DayLen ELSE 0

\* C7 (daily reset), as claimed: after every assessRisk, recordTradeStart or
\* recordTradeEnd call the daily counters have been reset once for each UTC
\* day boundary the clock has passed.
C7_ResetOncePerBoundary ==
    lastOp \in {"assess", "start", "end"} => resetsDone = BoundariesCrossed(now)

\* the ledger fields the frame condition of assessRisk is about
LedgerCore(l) == <<l.dailyTrades, l.dailyVolume, l.activeTrades, l.lastTradeTime,
                   l.blacklistedTokens, l.blacklistedProtocols>>

C9_NoNewExecutionAfterEmergencyStop ==
    [][estopped =>
          \A h \in Handlers :
              /\ pc'[h] \in ExecPcs => pc[h] \in ExecPcs
              /\ ex'[h].open <= ex[h].open
              /\ ex'[h].sub # ex[h].sub => pc[h] \in ExecPcs]_vars

\* a handler that was waiting when emergencyStop returned was refused
C9_Witness ==
    /\ estopped
    /\ \E h \in waitingAtStop : pc[h] = "refused"
    /\ lastResult = Thrown("disabled")

\* C10 (emergency stop halts scanning), as claimed: from the return of
\* emergencyStop until the next call of start(), no timer-triggered scan begins.
C10_NoTickAfterEmergencyStop ==
    [][haltedScan => scans' <= scans]_vars

\* an assessRisk call has just returned
Assessed == lastOp = "assess" /\ assessment.kind = "assessment"

\* C16: assessRisk returns shouldExecute = false whenever the risk score it
\* computed is greater than 70, whatever the opportunity, the AI prediction,
\* the configured threshold and the ledger are.
C16_CriticalScoreRejects ==
    Assessed /\ assessment.riskScore > CriticalScore => ~assessment.shouldExecute

\* a critical score on an opportunity that passes every other test of
\* shouldExecuteTrade: caps not reached, profit above the risk-adjusted bar
C16_Witness ==
    /\ Assessed
    /\ assessment.riskScore > CriticalScore
    /\ ~assessment.shouldExecute
    /\ ledger.dailyTrades < DailyTradeLimit
    /\ ledger.activeTrades < MaxActiveTrades
    /\ request.opp.profitBp * 1000 >= request.thr * (100 + assessment.riskScore)

\* one of the two assets of the assessed opportunity is on the token blacklist
AssetListed ==
    \/ ToLowerCase(request.opp.tokenA) \in ledger.blacklistedTokens
    \/ ToLowerCase(request.opp.tokenB) \in ledger.blacklistedTokens

\* C18: whenever either asset of the opportunity is on the token blacklist,
\* assessRisk returns a risk score of at least 90 and shouldExecute = false,
\* whatever the symbols, venues, liquidity, profit, age, ledger counters and
\* AI prediction are.
C18_BlacklistedAssetRejected ==
    Assessed /\ AssetListed =>
        assessment.riskScore >= 90 /\ ~assessment.shouldExecute

\* the lowest score a blacklisted asset can get: a stablecoin pair with a
\* confident AI prediction and nothing else scored; tokenA is spelled in
\* mixed case and listed in lower case
C18_Witness ==
    /\ Assessed
    /\ "0xab" \in ledger.blacklistedTokens
    /\ request.opp.tokenA = "0xAB"
    /\ request.ai.kind = "prediction"
    /\ assessment.riskScore = 90
    /\ ~assessment.shouldExecute

\* the reasons assessProfitRisk gives for a thin profit; no reason of the
\* RiskManager names minProfitThreshold
LowProfitReasons ==
    {"Very low profit margin - high execution risk",
     "Low profit margin - moderate execution risk"}

\* the last assessment was refused by the fourth test of shouldExecuteTrade:
\* score not critical, caps not reached, profit below the risk-adjusted bar
RejectedForProfit ==
    /\ Assessed
    /\ ~assessment.shouldExecute
    /\ assessment.riskScore <= CriticalScore
    /\ ledger.dailyTrades < DailyTradeLimit
    /\ ledger.activeTrades < MaxActiveTrades
    /\ request.opp.profitBp * 1000 < request.thr * (100 + assessment.riskScore)

\* C19: whenever assessRisk returns shouldExecute = false because the profit
\* percentage is below the risk-adjusted minProfitThreshold, the reasons it
\* returns contain one about the profit being too low.
C19_ThinProfitReason ==
    RejectedForProfit =>
        \E i \in 1..Len(assessment.reasons) : assessment.reasons[i] \in LowProfitReasons

\* reason r is among the reasons of the last assessment
HasReason(r) == \E i \in 1..Len(assessment.reasons) : assessment.reasons[i] = r

\* the assessment of request req that a RiskManager holding ledger l returns now
AssessmentOf(l, req) == assessRisk(l, now, req.opp, req.ai, req.thr)

\* every assessRisk reports exactly the entries that the blacklist calls made
\* so far leave listed, token addresses in any spelling
BlacklistInEffect ==
    Assessed =>
        /\ HasReason("Token is blacklisted")
              <=> (request.opp.tokenA \in blHistory.tokens
                     \/ request.opp.tokenB \in blHistory.tokens)
        /\ HasReason("Protocol is blacklisted")
              <=> (request.opp.buyProtocol \in blHistory.protocols
                     \/ request.opp.sellProtocol \in blHistory.protocols)

\* from every reachable ledger: adding an unlisted entry and removing it (a
\* token in any spelling) gives back the ledger and with it every assessment
AddRemoveIsNoOp ==
    /\ \A a \in TokenAddrs : \A x \in Spellings(a) :
          a \notin blHistory.tokens =>
              LET l == removeTokenFromBlacklist(addTokenToBlacklist(ledger, a), x)
              IN /\ l = ledger
                 /\ \A req \in SampleRequests :
                       AssessmentOf(l, req) = AssessmentOf(ledger, req)
    /\ \A p \in ProtocolNames :
          p \notin blHistory.protocols =>
              LET l == removeProtocolFromBlacklist(addProtocolToBlacklist(ledger, p), p)
              IN /\ l = ledger
                 /\ \A req \in SampleRequests :
                       AssessmentOf(l, req) = AssessmentOf(ledger, req)

\* a call that adds an entry which is already listed changes nothing
AddTwiceIsAddOnce ==
    /\ request'.kind = "addTokenToBlacklist" /\ request'.arg \in blHistory.tokens
          => ledger' = ledger
    /\ request'.kind = "addProtocolToBlacklist" /\ request'.arg \in blHistory.protocols
          => ledger' = ledger

\* C20: addTokenToBlacklist / addProtocolToBlacklist take effect on the very
\* next assessRisk (token addresses match in any letter case), adding an
\* entry twice equals adding it once, and removing an entry makes every later
\* assessment what it would be had the entry never been added.
C20_BlacklistMutations ==
    /\ [](BlacklistInEffect /\ AddRemoveIsNoOp)
    /\ [][AddTwiceIsAddOnce]_vars

\* an assessment made while tokenA, spelled in mixed case by the opportunity,
\* is listed in lower case and no venue is listed
C20_Witness ==
    /\ Assessed
    /\ request.opp.tokenA = "0xAB"
    /\ ledger.blacklistedTokens = {"0xab"}
    /\ HasReason("Token is blacklisted")
    /\ ~HasReason("Protocol is blacklisted")

\* C17: once 50 recordTradeStart calls have occurred within one UTC day,
\* every assessRisk of that day returns shouldExecute = false; and whenever
\* activeTrades >= 3, assessRisk returns shouldExecute = false with the
\* reason about concurrent trades.
C17_TradeCaps ==
    Assessed =>
        /\ startsToday >= DailyTradeLimit => ~assessment.shouldExecute
        /\ ledger.activeTrades >= MaxActiveTrades =>
              /\ ~assessment.shouldExecute
              /\ HasReason("Multiple concurrent trades - increased risk")

\* both revalidation quotes of the execution have arrived
Requoted == run.buyQuote > 0

\* the re-quoted profit percentage, times 100
RequotedBp == ProfitBpOf(run.sellQuote, run.inputAmount)

\* the re-quoted profit percentage is below minProfitThreshold
BelowThreshold == RequotedBp * 10 < run.thr

\* (detected - current) / detected exceeds 0.5
Degraded == 2 * (RunOpp.profitBp - RequotedBp) > RunOpp.profitBp

\* the execution made no balance read, no allowance read, no approval and
\* no trade submission
NothingTouched ==
    /\ run.balance = -1
    /\ run.allowance = <<-1, -1>>
    /\ run.approvalsSent = 0
    /\ run.legs = <<>>

\* C11: if the re-quoted profit percentage is below minProfitThreshold, or
\* the degradation (detected - current) / detected exceeds 0.5, the execution
\* aborts with success = false and an empty transactionHashes, and makes no
\* balance read, allowance read, approval or trade submission.
C11_RevalidationRejects ==
    Requoted /\ (BelowThreshold \/ Degraded) =>
        /\ run.pc = "done"
        /\ lastResult.kind = "result"
        /\ ~lastResult.success
        /\ lastResult.txs = <<>>
        /\ NothingTouched

\* an execution rejected for degradation alone: the re-quoted profit is above
\* the threshold and less than half of the detected profit
C11_Witness ==
    /\ Requoted
    /\ Degraded
    /\ ~BelowThreshold
    /\ run.pc = "done"
    /\ ~lastResult.success
    /\ lastResult.err = "Validation failed"

\* leg i as this execution's own revalidation quotes give it
RevalidatedStep(i) ==
    IF i = 1
    THEN Step(run.inputAmount, calculateSlippageProtectedAmount(run.buyQuote))
    ELSE Step(run.buyQuote, calculateSlippageProtectedAmount(run.sellQuote))

\* C12: every leg an execution submits carries amounts derived from that
\* execution's own revalidation quotes (leg 1: the current input amount and
\* the minimum from the fresh buy quote; leg 2: the fresh buy quote and the
\* minimum from the fresh sell quote), never the amounts stored in the
\* detected opportunity's executionPath.
C12_OnlyRevalidatedAmounts ==
    \A i \in 1..Len(run.legs) :
        /\ Requoted
        /\ run.valid = "valid"
        /\ run.legs[i] = RevalidatedStep(i)

\* both legs submitted, with a position size scaled by the risk assessment
\* and amounts that all differ from the detected path's
C12_Witness ==
    /\ Len(run.legs) = NumLegs
    /\ run.inputAmount < ProbeAmount
    /\ \A i \in 1..NumLegs :
          /\ run.legs[i].amountIn # DetectedPath(run.profitAmount)[i].amountIn
          /\ run.legs[i].amountOutMin # DetectedPath(run.profitAmount)[i].amountOutMin

\* the gas price estimateGasCosts used: the network's, or maxGasPrice when the
\* network reports none
GasPriceUsed == IF run.gasPrice = 0 THEN MaxGasPrice ELSE run.gasPrice

\* C13 as stated: an execution of an opportunity whose nominal profit minus
\* (sum of the per-leg gas estimates x 1.2 x gas price) is non-positive
\* submits no trade leg.  (profit - 1.2 * sum * price <= 0 iff
\* 10 * profit <= 12 * sum * price.)
C13_GasGuardExact ==
    10 * run.profitAmount <= 12 * run.gasSum * GasPriceUsed => run.legs = <<>>

\* C13, amended: the buffered estimate is the integer floor(sum * 120 / 100);
\* an execution whose profitAmount minus floor(sum * 120 / 100) x gas price is
\* non-positive is never started: executeOpportunity is not called, so no
\* trade leg is submitted.
C13_GasGuard ==
    run.profitAmount - ((run.gasSum * 120) \div 100) * GasPriceUsed <= 0 =>
        /\ "execute" \notin run.calls
        /\ run.legs = <<>>
        /\ (run.gasSum > 0 => run.pc = "done")

\* the guard stopped an opportunity that passed the risk assessment
C13_Witness ==
    /\ run.go
    /\ run.gasSum > 0
    /\ run.profitAmount - ((run.gasSum * 120) \div 100) * GasPriceUsed <= 0
    /\ run.pc = "done"
    /\ "execute" \notin run.calls

\* token k (1: tokenA, 2: tokenB) is not the chain's native asset
NonNative(k) == IF k = 1 THEN ~run.nativeA ELSE ~run.nativeB

\* C14: if the wallet's balance of the first leg's input asset is below the
\* input amount, the execution aborts before any approval or trade is
\* submitted; and once the first trade leg is submitted, every non-native
\* asset's allowance covers the amount the leg spending it carries, as read
\* or through an approval whose confirmation was awaited.
C14_PreconditionsPrecede ==
    /\ run.balance # -1 /\ run.balance < run.inputAmount =>
          /\ run.pc = "done"
          /\ run.approvalsSent = 0
          /\ run.legs = <<>>
    /\ run.legs # <<>> =>
          \A k \in 1..NumLegs :
              NonNative(k) =>
                  \/ k \in run.approved
                  \/ run.allowance[k] >= run.path[k].amountIn

\* C15: handleOpportunityFound invokes executeOpportunity for an opportunity
\* only if tradingEnabled was true when the opportunity was handled and
\* assessRisk returned shouldExecute = true for it; when trading is disabled,
\* no AI prediction, risk assessment, gas estimate or execution is attempted.
C15_PipelineGating ==
    /\ "execute" \in run.calls => run.enabled /\ run.go
    /\ "gas" \in run.calls => run.enabled /\ run.go
    /\ run.pc # "idle" /\ ~run.enabled =>
          /\ run.pc = "done"
          /\ run.calls = {}
          /\ lastResult = NoResult

\* executeOpportunity was invoked for an opportunity that passed both gates
C15_Witness ==
    /\ run.calls = {"predict", "assess", "gas", "execute"}
    /\ run.enabled
    /\ run.go
    /\ run.pc = "e_ai"

\* percentage of the input amount kept in the band of a score
BandPercent(score) ==
    CASE score <= 15 -> 100
      [] score > 15 /\ score <= 30 -> 85
      [] score > 30 /\ score <= 50 -> 70
      [] OTHER -> 50

\* a range holding every score assessRisk can return; trusted venues,
\* stablecoins and a confident AI prediction make the sum negative
AssessableScores == (0 - 50)..500

ScoreWith(opp, l) == assessRisk(l, now, opp, request.ai, request.thr).riskScore

\* pool depths around the bands of assessLiquidityRisk
LiquidityLevels == {0, 1, 5000, 9999, 10000, 99999, 100000, 1000000}
\* profitPercentage * 100 at and below the low-margin band of assessProfitRisk
SafetyFloorBp == 20
ThinProfitsBp == {0 - 50, 0, 5, 9, 10, 19, 20}

\* C22: with all other inputs fixed, the score assessRisk returns does not
\* decrease when the shallower pool's liquidity decreases, when the profit
\* percentage drops further below the safety floor, when the opportunity gets
\* older, or when the number of active trades grows.
C22_ScoreMonotone ==
    Assessed =>
        LET opp == request.opp
            score == assessment.riskScore
        IN /\ score = ScoreWith(opp, ledger)
           /\ opp.sellLiquidity <= opp.buyLiquidity =>
                 \A liq \in LiquidityLevels :
                     liq <= opp.sellLiquidity =>
                         ScoreWith([opp EXCEPT !.sellLiquidity = liq], ledger) >= score
           /\ opp.profitBp <= SafetyFloorBp =>
                 \A bp \in ThinProfitsBp :
                     bp <= opp.profitBp =>
                         ScoreWith([opp EXCEPT !.profitBp = bp], ledger) >= score
           /\ \A older \in 1..MaxAge :
                  ScoreWith([opp EXCEPT !.timestamp = opp.timestamp - older], ledger)
                      >= score
           /\ \A more \in 1..MaxActiveTrades :
                  ScoreWith(opp, [ledger EXCEPT !.activeTrades = ledger.activeTrades + more])
                      >= score

\* an assessment for which each of the four changes raises the score: a large
\* position on a shallow pool that can still be emptied, a low margin that
\* can get very low, a fresh opportunity, no active trade
C22_Witness ==
    /\ Assessed
    /\ request.opp.sellLiquidity = 5000
    /\ ScoreWith([request.opp EXCEPT !.sellLiquidity = 0], ledger) > assessment.riskScore
    /\ request.opp.profitBp = 15
    /\ ScoreWith([request.opp EXCEPT !.profitBp = 5], ledger) = assessment.riskScore + 15
    /\ now = request.opp.timestamp
    /\ ScoreWith([request.opp EXCEPT !.timestamp = now - MaxAge], ledger)
          = assessment.riskScore + 15
    /\ ledger.activeTrades = 0
    /\ ScoreWith(request.opp, [ledger EXCEPT !.activeTrades = MaxActiveTrades])
          = assessment.riskScore + 15

\* The object the scanner built. handleOpportunityFound puts the reference it
\* was given at the head of recentOpportunities, emits that reference, and
\* later assigns to opportunity.inputAmount through the same reference, so
\* the stored object's inputAmount is the handler's; validateOpportunity
\* spreads the object into a new one with a newly mapped executionPath, so
\* the stored object's profit and legs stay those of the detection.
StoredOpportunity ==
    [inputAmount |-> run.inputAmount,
     profitAmount |-> run.profitAmount,
     executionPath |-> DetectedPath(run.profitAmount)]

\* C23: once the scanner has built an opportunity and the handler has stored
\* and emitted it, no step changes that object: its input amount, its legs
\* and its direction stay as detected.
C23_StoredOpportunityUntouched ==
    [][run.pc # "idle" => StoredOpportunity' = StoredOpportunity]_vars

\* C29: a successful execution reports as actualProfit the balance of tokenA
\* read after the last leg confirmed minus the amount the first submitted leg
\* spent; a failed execution reports actualProfit 0.
C29_ProfitAccounting ==
    run.pc = "done" /\ lastResult.kind = "result" =>
        IF lastResult.success
        THEN /\ Len(run.legs) = NumLegs
             /\ Len(run.txs) = NumLegs
             /\ run.finalBalance # -1
             /\ lastResult.profit = run.finalBalance - run.legs[1].amountIn
        ELSE /\ lastResult.profit = 0
             /\ run.finalBalance = -1

\* a successful execution of a position that the risk assessment had reduced
C29_Witness ==
    /\ run.pc = "done"
    /\ lastResult.kind = "result"
    /\ lastResult.success
    /\ run.legs[1].amountIn = 85
    /\ run.finalBalance = 101
    /\ lastResult.profit = 16

\* calculateArbitrage has returned
Calculated == arb.pc # "idle"
Built == Calculated /\ arb.built.kind = "opportunity"
\* net proceeds minus the probe amount of direction 1 and of direction 2
Result1 == arb.q.B_back - arb.testAmount
Result2 == arb.q.A_back - arb.testAmount
\* the same as whole basis points of the probe amount, rounded toward zero
ResultBp1 == TruncDiv(Result1 * 10000, arb.testAmount)
ResultBp2 == TruncDiv(Result2 * 10000, arb.testAmount)
BuiltDirection ==
    IF arb.built.buyPool = PoolA.id /\ arb.built.sellPool = PoolB.id THEN 1
    ELSE IF arb.built.buyPool = PoolB.id /\ arb.built.sellPool = PoolA.id THEN 2
    ELSE 0

BuyVenueQuote == IF BuiltDirection = 1 THEN arb.q.A_to_B ELSE arb.q.B_to_A
SellVenueQuote == IF BuiltDirection = 1 THEN arb.q.B_back ELSE arb.q.A_back
\* min is amount x (1 - maxSlippage) with maxSlippage 0.02, rounded down
SlippageAdjusted(min, amount) ==
    min * 1000 <= amount * 980 /\ amount * 980 < (min + 1) * 1000

\* C25: in either direction, leg 1 of a built opportunity trades the probe
\* amount through buyPool with amountOutMin = the buy venue's quote for the
\* probe amount x (1 - maxSlippage); leg 2 trades that quoted amount through
\* sellPool with amountOutMin = the sell venue's round-trip quote x
\* (1 - maxSlippage); gasEstimate is the buy venue's estimate for leg 1 plus
\* the sell venue's estimate for leg 2.
C25_LegConstruction ==
    Built =>
        LET path == arb.built.executionPath
        IN /\ Len(path) = NumLegs
           /\ path[1].pool = arb.built.buyPool
           /\ path[1].amountIn = arb.testAmount
           /\ SlippageAdjusted(path[1].amountOutMin, BuyVenueQuote)
           /\ path[2].pool = arb.built.sellPool
           /\ path[2].amountIn = BuyVenueQuote
           /\ SlippageAdjusted(path[2].amountOutMin, SellVenueQuote)
           /\ arb.built.gasEstimate
                 = arb.gas[arb.built.buyPool][1] + arb.gas[arb.built.sellPool][2]

Revalidated == arb.pc = "valid"
\* bp is (out - inp) / inp in whole basis points, rounded toward zero
IsBasisPoints(bp, out, inp) ==
    IF out >= inp
    THEN bp * inp <= (out - inp) * 10000 /\ (out - inp) * 10000 < (bp + 1) * inp
    ELSE bp * inp >= (out - inp) * 10000 /\ (out - inp) * 10000 > (bp - 1) * inp

\* C27: the opportunity calculateArbitrage returns and the copy
\* validateOpportunity returns carry profitAmount = round-trip output - input
\* amount exactly and profitPercentage = that difference over the input amount
\* in whole basis points, less than one basis point from the exact ratio.
C27_ProfitArithmetic ==
    /\ Built =>
          /\ arb.built.inputAmount = arb.testAmount
          /\ arb.built.profitAmount = SellVenueQuote - arb.built.inputAmount
          /\ IsBasisPoints(arb.built.profitBp, SellVenueQuote, arb.built.inputAmount)
    /\ Revalidated =>
          /\ arb.copy.kind = "opportunity"
          /\ arb.copy.inputAmount = arb.opp.inputAmount
          /\ arb.copy.profitAmount = arb.currentSellQuote - arb.copy.inputAmount
          /\ IsBasisPoints(arb.copy.profitBp, arb.currentSellQuote, arb.copy.inputAmount)

\* a revalidated copy of a reduced position whose ratio is not a whole number
\* of basis points
C27_Witness ==
    /\ Revalidated
    /\ arb.copy.inputAmount = 85
    /\ arb.copy.profitAmount = 3
    /\ arb.copy.profitBp = 352
    /\ arb.built.profitBp = 300

\* each leg's output asset is the next leg's input asset, and the last leg's
\* output asset is the first leg's input asset
RoundTrip(path) ==
    /\ Len(path) >= 1
    /\ \A i \in 1..(Len(path) - 1) : path[i].tokenOut = path[i + 1].tokenIn
    /\ path[Len(path)].tokenOut = path[1].tokenIn

\* what revalidation must leave alone in a leg
LegIdentity(step) == <<step.protocol, step.tokenIn, step.tokenOut, step.pool, step.route>>

\* C28: the legs of the opportunity calculateArbitrage returns and of the copy
\* validateOpportunity returns form a round trip, and the copy has the same
\* legs in the same positions with the same venue, assets and pool.
C28_RoundTrip ==
    /\ Built => RoundTrip(arb.built.executionPath)
    /\ Revalidated =>
          /\ RoundTrip(arb.copy.executionPath)
          /\ Len(arb.copy.executionPath) = Len(arb.built.executionPath)
          /\ \A i \in 1..Len(arb.copy.executionPath) :
                LegIdentity(arb.copy.executionPath[i])
                    = LegIdentity(arb.built.executionPath[i])
          /\ arb.copy.buyPool = arb.built.buyPool
          /\ arb.copy.sellPool = arb.built.sellPool

\* a revalidated copy of a direction-2 opportunity whose amounts were refreshed
C28_Witness ==
    /\ Revalidated
    /\ arb.built.buyPool = PoolB.id
    /\ arb.copy.executionPath[1].pool = PoolB.id
    /\ arb.copy.executionPath[2].pool = PoolA.id
    /\ arb.copy.executionPath[2].amountIn # arb.built.executionPath[2].amountIn

\* how many entries of a sequence of profits equal bp
Occurrences(s, bp) == Cardinality({i \in 1..Len(s) : s[i] = bp})
Qualifies(bp) == bp * 10 >= cycle.thr

\* C26: in a scan cycle every 'opportunity-found' event carries a profit at
\* or above minProfitThreshold, every built opportunity at or above it is
\* emitted, once, and the events are in non-increasing order of profit;
\* nothing is emitted before the last pair was scanned.
C26_ScanEmission ==
    /\ cycle.pc # "done" => cycle.emitted = <<>>
    /\ cycle.pc = "done" =>
          /\ \A i \in 1..Len(cycle.emitted) : Qualifies(cycle.emitted[i])
          /\ \A i \in 1..Len(cycle.opportunities) :
                Qualifies(cycle.opportunities[i]) =>
                    Occurrences(cycle.emitted, cycle.opportunities[i])
                        = Occurrences(cycle.opportunities, cycle.opportunities[i])
          /\ \A i \in 1..Len(cycle.emitted) :
                Occurrences(cycle.opportunities, cycle.emitted[i]) > 0
          /\ \A i, j \in 1..Len(cycle.emitted) :
                i < j => cycle.emitted[i] >= cycle.emitted[j]

\* a cycle that built a 1 %, a 3 % and a 1 % opportunity in that order under
\* the default threshold: all are emitted, the most profitable first
C26_Witness ==
    /\ cycle.pc = "done"
    /\ cycle.thr = MinProfitThresholdE3
    /\ cycle.opportunities = <<100, 300, 100>>
    /\ cycle.emitted = <<300, 100, 100>>

\* scanTokenPair has returned for the pair whose discoveries the cycle holds
PairScanned == cycle.pc \in {"discover", "done"} /\ cycle.pair > 1
\* two venues that both returned a pool for that pair
Unaffected(v, w) ==
    /\ cycle.discovered[v] = "pools"
    /\ cycle.discovered[w] = "pools"
    /\ \E k \in 1..Len(PoolPairs(cycle.discovered)) :
          PoolPairs(cycle.discovered)[k] = <<v, w>>

\* C30: a failure of pool discovery or of quoting for one venue on one pair
\* skips the pool pairs of that venue for that pair and nothing else: every
\* two other venues with pools are still calculated for the pair, a pool pair
\* with a failed quote yields no opportunity, every token pair of the cycle is
\* scanned and the cycle ends.
C30_FailureIsolation ==
    /\ PairScanned =>
          /\ \A v, w \in DOMAIN cycle.discovered :
                Unaffected(v, w) => <<v, w>> \in cycle.evaluated
          /\ \A vw \in cycle.evaluated :
                cycle.discovered[vw[1]] = "pools" /\ cycle.discovered[vw[2]] = "pools"
    /\ cycle.pc = "done" => cycle.pair = Len(TokenPairs) + 1
    /\ cycle.last.quoteFailed => cycle.last.profitBp = 0

(***************************************************************************)
(* RiskManager.recordTradeStart / recordTradeEnd called directly, as the   *)
(* trade-tracking tests do, the arguments of each call kept in request     *)
(***************************************************************************)
\* a recordTradeStart() or recordTradeEnd(inputAmount, success) call
TradeCall(method, inputAmount, success) ==
    [kind |-> method, inputAmount |-> inputAmount, success |-> success]

trackFrame == <<now, tradingEnabled, engineVars, traderVars, estopped, waitingAtStop,
                resetsDone, lastOp, assessment, blHistory, startsToday, run, scanVars>>

T_RecordTradeStart ==
    /\ ledger.activeTrades < MaxTrades
    /\ ledger.dailyTrades < MaxTrades
    /\ ledger' = recordTradeStart(ledger, now)
    /\ request' = TradeCall("recordTradeStart", 0, FALSE)
    /\ UNCHANGED trackFrame

\* inputAmount is the decimal string of an integer, as BigInt() requires
T_RecordTradeEnd ==
    /\ \E a \in EndAmounts, success \in BOOLEAN :
          /\ ledger.dailyVolume + a <= MaxVolume
          /\ ledger' = recordTradeEnd(ledger, a, success)
          /\ request' = TradeCall("recordTradeEnd", a, success)
    /\ UNCHANGED trackFrame

NextTrack ==
    \/ T_RecordTradeStart
    \/ T_RecordTradeEnd

SpecTrack == Init /\ [][NextTrack]_vars

\* C33: recordTradeStart raises activeTrades and dailyTrades by exactly 1 each;
\* recordTradeEnd(amount, success) lowers activeTrades by 1 but never below 0,
\* adds amount to dailyVolume if and only if success is true, and leaves
\* dailyTrades as it was.
C33_LedgerOperations ==
    [][/\ request'.kind = "recordTradeStart" =>
             /\ ledger'.activeTrades = ledger.activeTrades + 1
             /\ ledger'.dailyTrades = ledger.dailyTrades + 1
             /\ ledger'.dailyVolume = ledger.dailyVolume
       /\ request'.kind = "recordTradeEnd" =>
             /\ ledger'.activeTrades =
                   (IF ledger.activeTrades = 0 THEN 0 ELSE ledger.activeTrades - 1)
             /\ ledger'.activeTrades >= 0
             /\ ledger'.dailyTrades = ledger.dailyTrades
             /\ ledger'.dailyVolume =
                   (IF request'.success THEN ledger.dailyVolume + request'.inputAmount
                                        ELSE ledger.dailyVolume)]_vars

\* a successful recordTradeEnd of amount 1 with no trade open: the volume is
\* 1, activeTrades stayed 0 and no trade was counted
C33_Witness ==
    /\ request.kind = "recordTradeEnd"
    /\ request.success
    /\ request.inputAmount = 1
    /\ ledger.dailyVolume = 1
    /\ ledger.activeTrades = 0
    /\ ledger.dailyTrades = 0

(***************************************************************************)
(* ProtocolManager: the venue registry built from PROTOCOL_CONFIGS, and    *)
(* its lookups                                                             *)
(***************************************************************************)
\* one ProtocolConfig listed under the key chain of PROTOCOL_CONFIGS
Config(chain, name, quoter) ==
    [chain |-> chain, name |-> name, chainId |-> chain, quoterAddress |-> quoter]

\* PROTOCOL_CONFIGS in the order Object.entries visits it: integer-like keys
\* ascending, the configurations of a chain in their array order
PROTOCOL_CONFIGS ==
    << Config(1, "uniswap_v2", FALSE), Config(1, "uniswap_v3", TRUE),
       Config(1, "sushiswap", FALSE), Config(1, "balancer", FALSE),
       Config(1, "curve", FALSE),
       Config(10, "uniswap_v3", TRUE), Config(10, "curve", FALSE),
       Config(56, "pancakeswap", FALSE), Config(56, "sushiswap", FALSE),
       Config(137, "quickswap", FALSE), Config(137, "sushiswap", FALSE),
       Config(137, "uniswap_v3", TRUE), Config(137, "balancer", FALSE),
       Config(137, "curve", FALSE),
       Config(42161, "uniswap_v3", TRUE), Config(42161, "sushiswap", FALSE),
       Config(42161, "balancer", FALSE), Config(42161, "curve", FALSE),
       Config(43114, "traderjoe", FALSE), Config(43114, "pangolin", FALSE),
       Config(43114, "curve", FALSE) >>

\* the configuration names the switch of initializeProtocols builds a
\* UniswapV2Protocol for
V2Family == {"uniswap_v2", "sushiswap", "pancakeswap", "quickswap", "traderjoe", "pangolin"}

\* new UniswapV2Protocol(...) / new UniswapV3Protocol(...): the constructors pass
\* a fixed name to BaseProtocol
UniswapV2Protocol(chainId) == [name |-> "uniswap_v2", chainId |-> chainId]
UniswapV3Protocol(chainId) == [name |-> "uniswap_v3", chainId |-> chainId]

\* the key of the protocols map: `${name}_${chain}`
ProtocolKey(name, chain) == <<name, chain>>

\* Map.prototype.set on the entries in insertion order
MapSet(entries, key, value) ==
    IF \E i \in 1..Len(entries) : entries[i].key = key
    THEN [i \in 1..Len(entries) |->
             IF entries[i].key = key THEN [key |-> key, value |-> value] ELSE entries[i]]
    ELSE Append(entries, [key |-> key, value |-> value])

\* the switch of initializeProtocols for one configuration
registerConfig(entries, config) ==
    IF config.name \in V2Family
    THEN MapSet(entries, ProtocolKey(config.name, config.chain),
                UniswapV2Protocol(config.chainId))
    ELSE IF config.name = "uniswap_v3" /\ config.quoterAddress
    THEN MapSet(entries, ProtocolKey(config.name, config.chain),
                UniswapV3Protocol(config.chainId))
    ELSE entries

RECURSIVE initializeProtocols(_)
initializeProtocols(n) ==
    IF n = 0 THEN <<>>
    ELSE registerConfig(initializeProtocols(n - 1), PROTOCOL_CONFIGS[n])

\* ProtocolManager.protocols after the constructor
protocols == initializeProtocols(Len(PROTOCOL_CONFIGS))

NoClient == [name |-> "", chainId |-> 0]

\* getProtocol: found is FALSE for undefined
getProtocol(protocolName, chainId) ==
    LET hits == SelectSeq(protocols, LAMBDA e : e.key = ProtocolKey(protocolName, chainId))
    IN IF hits = <<>> THEN [found |-> FALSE, client |-> NoClient]
       ELSE [found |-> TRUE, client |-> hits[1].value]

\* getProtocolsByChain: the clients whose getChainId() is chainId
getProtocolsByChain(chainId) ==
    LET hits == SelectSeq(protocols, LAMBDA e : e.value.chainId = chainId)
    IN [i \in 1..Len(hits) |-> hits[i].value]

\* names and chains the lookups are made with
LookupNames ==
    V2Family \cup {"uniswap_v3", "balancer", "curve", "non_existent_protocol"}
LookupChains == {1, 5, 10, 56, 137, 42161, 43114}

NoLookup == [found |-> FALSE, client |-> NoClient, clients |-> <<>>]

registryFrame == <<now, tradingEnabled, ledger, engineVars, traderVars, estopped,
                   waitingAtStop, resetsDone, lastOp, assessment, blHistory,
                   startsToday, run, scanVars>>

G_GetProtocol ==
    /\ \E name \in LookupNames, chainId \in LookupChains :
          request' = [kind |-> "getProtocol", name |-> name, chainId |-> chainId,
                      found |-> getProtocol(name, chainId).found,
                      client |-> getProtocol(name, chainId).client,
                      clients |-> <<>>]
    /\ UNCHANGED registryFrame

G_GetProtocolsByChain ==
    /\ \E chainId \in LookupChains :
          request' = [kind |-> "getProtocolsByChain", name |-> "", chainId |-> chainId,
                      found |-> FALSE, client |-> NoClient,
                      clients |-> getProtocolsByChain(chainId)]
    /\ UNCHANGED registryFrame

NextRegistry ==
    \/ G_GetProtocol
    \/ G_GetProtocolsByChain

SpecRegistry == Init /\ [][NextRegistry]_vars

\* the (name, chain) pairs initializeProtocols registers a client under
RegisteredUnder ==
    {<<c.name, c.chain>> : c \in {PROTOCOL_CONFIGS[i] : i \in 1..Len(PROTOCOL_CONFIGS)}}
        \cap {protocols[i].key : i \in 1..Len(protocols)}

\* C32: for every venue configuration registered under (name, chainId),
\* getProtocol(name, chainId) returns a client whose getName() is name and whose
\* getChainId() is chainId; getProtocolsByChain(c) returns exactly the clients
\* registered under chain c; getProtocol returns undefined for a name that was
\* not registered.
C32_VenueRegistry ==
    /\ request.kind = "getProtocol" =>
          IF <<request.name, request.chainId>> \in RegisteredUnder
          THEN /\ request.found
               /\ request.client.name = request.name
               /\ request.client.chainId = request.chainId
          ELSE ~request.found
    /\ request.kind = "getProtocolsByChain" =>
          LET under == SelectSeq(protocols, LAMBDA e : e.key[2] = request.chainId)
          IN request.clients = [i \in 1..Len(under) |-> under[i].value]

\* the buy pool or the sell pool of the assessed opportunity is on a venue of
\* the protocol blacklist
VenueListed ==
    \/ request.opp.buyProtocol \in ledger.blacklistedProtocols
    \/ request.opp.sellProtocol \in ledger.blacklistedProtocols

\* C40: while a venue is on the protocol blacklist, assessRisk never returns
\* shouldExecute = true for an opportunity whose buy pool or sell pool is on
\* that venue, whatever the other inputs are.
C40_BlacklistedVenueRejected ==
    Assessed /\ VenueListed => ~assessment.shouldExecute

\* C39: a successful execution increases dailyVolume by exactly that
\* execution's input amount and a failed execution leaves it unchanged, so
\* dailyVolume is the sum of the input amounts of the executions that ended
\* successfully since the last daily reset.
C39_DailyVolumeAccounting ==
    [][\A h \in Handlers :
          (pc[h] \in ExecPcs /\ pc'[h] = "done") =>
              ledger'.dailyVolume =
                  ledger.dailyVolume + (IF lastResult'.success THEN ex[h].amount ELSE 0)]_vars

(***************************************************************************)
(* The wired pipeline from a state in which a trade is executing: the      *)
(* first opportunity passed the risk gate and the gas estimate, and        *)
(* executeOpportunity awaits its AI prediction; no scan cycle is in        *)
(* progress and the other opportunities have not been found yet            *)
(***************************************************************************)
InitExecuting ==
    /\ now \in 0..(DayLen - 1)
    /\ tradingEnabled = TRUE
    /\ ledger = OnExecutionStarted(NewLedger(now), now)
    /\ isExecuting = TRUE
    /\ pc = [h \in Handlers |-> IF h = 1 THEN "e_ai" ELSE "idle"]
    /\ \E riskScore \in Scores :
          /\ riskScore <= CriticalScore
          /\ ex = [h \in Handlers |->
                      IF h = 1
                      THEN [NoExec EXCEPT
                               !.amount = calculateAdjustedPositionSize(ProbeAmount, riskScore),
                               !.open = 1]
                      ELSE NoExec]
    /\ lastResult = NoResult
    /\ isRunning = TRUE
    /\ startPc = [s \in Starts |-> "idle"]
    /\ scanInterval = TRUE
    /\ activeTimers = 1
    /\ scans = 0
    /\ estopped = FALSE
    /\ waitingAtStop = {}
    /\ haltedScan = FALSE
    /\ resetsDone = 0
    /\ lastOp = "init"
    /\ request = NoRequest
    /\ assessment = NoAssessment
    /\ blHistory = NoBlHistory
    /\ startsToday = 0
    /\ run = NoRun
    /\ arb = NoArb
    /\ cycle = NoCycle

SpecExecuting == InitExecuting /\ [][Next]_vars

\* C31: scanning never waits for handleOpportunityFound or executeOpportunity:
\* whatever the executions are doing, a tick of a set timer begins a scan
\* cycle, and a cycle in progress can emit its opportunities and
\* 'scan-completed'.
C31_ScanDecoupled ==
    /\ (activeTimers > 0 /\ scans < MaxScans) => ENABLED ScanTick
    /\ scans > 0 => ENABLED ScanFinishEmpty
    /\ (scans > 0 /\ \E h \in Handlers : pc[h] = "idle") => ENABLED ScanFinish

\* the first execution, in flight since before any scan cycle began, is still
\* awaiting a receipt; a cycle has begun and completed meanwhile (it found the
\* second opportunity) and the next one has begun
C31_Witness ==
    /\ isExecuting
    /\ pc[1] = "e_wait"
    /\ pc[2] # "idle"
    /\ scans = 1

\* C35: wherever control can pass to another task, RiskManager.activeTrades is
\* 1 if an execution is in flight (isExecuting) and 0 otherwise, so
\* activeTrades never exceeds 1.
C35_LedgerMatchesGuard ==
    /\ ledger.activeTrades = (IF isExecuting THEN 1 ELSE 0)
    /\ ledger.activeTrades <= 1

\* one execution awaits a receipt with one active trade recorded, and a
\* concurrent request has been refused meanwhile
C35_Witness ==
    /\ isExecuting
    /\ ledger.activeTrades = 1
    /\ \E h \in Handlers : pc[h] = "e_wait"
    /\ \E h \in Handlers : pc[h] = "refused"
    /\ lastResult.kind = "thrown"

(***************************************************************************)
(* The wired pipeline late in a busy UTC day: the ledger has counted all   *)
(* but one of the trades the daily cap allows                              *)
(***************************************************************************)
InitBusyDay ==
    /\ now \in 0..(DayLen - 1)
    /\ tradingEnabled \in BOOLEAN
    /\ ledger = [NewLedger(now) EXCEPT !.dailyTrades = DailyTradeLimit - 1]
    /\ isExecuting = FALSE
    /\ pc = [h \in Handlers |-> "idle"]
    /\ ex = [h \in Handlers |-> NoExec]
    /\ lastResult = NoResult
    /\ isRunning = TRUE
    /\ startPc = [s \in Starts |-> "idle"]
    /\ scanInterval = TRUE
    /\ activeTimers = 1
    /\ scans = 0
    /\ estopped = FALSE
    /\ waitingAtStop = {}
    /\ haltedScan = FALSE
    /\ resetsDone = 0
    /\ lastOp = "init"
    /\ request = NoRequest
    /\ assessment = NoAssessment
    /\ blHistory = NoBlHistory
    /\ startsToday = 0
    /\ run = NoRun
    /\ arb = NoArb
    /\ cycle = NoCycle

SpecBusyDay == InitBusyDay /\ [][Next]_vars

\* C34: no execution starts (no recordTradeStart) while dailyTrades >= 50 for
\* the current UTC day, so dailyTrades never exceeds 50 within a day, however
\* the concurrently handled opportunities interleave.
C34_DailyTradeCap ==
    [][/\ ledger'.dailyTrades > ledger.dailyTrades => ledger.dailyTrades < DailyTradeLimit
       /\ ledger'.dailyTrades <= DailyTradeLimit]_vars

(***************************************************************************)
(* Scan cycles, handlers, executions and the trading switch (the clock and  *)
(* the trader's start and stop left aside) when every external call of an  *)
(* execution returns: the continuation of the executeOpportunity call in   *)
(* progress (a resolved or rejected await) is eventually run               *)
(***************************************************************************)
ExecStep ==
    \E h \in Handlers :
        \/ ExecAI(h)
        \/ ExecValidate(h)
        \/ ExecCheck(h)
        \/ ExecSubmit(h)
        \/ ExecReceipt(h)
        \/ ExecBalance(h)

NextFlights ==
    \/ SetTradingEnabled
    \/ ScanTick
    \/ ScanFinishEmpty
    \/ ScanFinish
    \/ \E h \in Handlers :
          \/ HandlerAssess(h)
          \/ HandlerExecute(h)
          \/ ExecAI(h)
          \/ ExecValidate(h)
          \/ ExecCheck(h)
          \/ ExecSubmit(h)
          \/ ExecReceipt(h)
          \/ ExecBalance(h)

SpecFlights == InitStarted /\ [][NextFlights]_vars /\ WF_vars(ExecStep)

\* an executeOpportunity call is between its first await and its return
InFlight == \E h \in Handlers : pc[h] \in ExecPcs

\* C36: isExecuting is false whenever no executeOpportunity call is in
\* progress; a request is refused as 'already executing' only while another
\* call is in progress, so after any execution ended (success, failed leg,
\* failed validation, an error in any stage) a later request passes the guard;
\* and, every external call returning, every started execution eventually ends.
C36_GuardReleased ==
    /\ [](isExecuting <=> InFlight)
    /\ [][\A h \in Handlers :
             (pc[h] = "h_gas" /\ pc'[h] = "refused" /\ lastResult'.err = "busy") =>
                 \E other \in Handlers \ {h} : pc[other] \in ExecPcs]_vars
    /\ (isExecuting ~> ~isExecuting)

\* an execution ended with a failed leg, the guard is clear, and the request
\* that followed it passed the guard and is executing
C36_Witness ==
    \E h \in Handlers : \E later \in Handlers \ {h} :
        /\ pc[h] = "done"
        /\ lastResult.kind = "result"
        /\ lastResult.err = "Transaction failed"
        /\ pc[later] = "e_ai"
        /\ isExecuting

\* C37: at most one scan interval timer is active at any time, and a timer is
\* active only while ArbitrageTrader.isRunning is true, however start(), stop()
\* and emergencyStop() interleave.
C37_ScanTimerLifecycle ==
    /\ activeTimers <= 1
    /\ activeTimers > 0 => isRunning

\* C38: at most one scan cycle is in progress at any time: neither a timer
\* tick during a cycle nor the initial scan of startScanning adds a second,
\* concurrent cycle.
C38_NoOverlappingScans ==
    scans + Cardinality({s \in Starts : startPc[s] = "scanning"}) <= 1
====
